---- MODULE Spec2Model ----
(***************************************************************************)
(* Token risk scanner: one analysis run (analyzeToken) of the three        *)
(* iterations of the analyzer kept in the repository,                      *)
(*   "analyzer_js" = src/src/analyzer.js                                   *)
(*   "part_006"    = src/unnamed/part_006                                  *)
(*   "part_007"    = src/unnamed/part_007                                  *)
(* Percentages the code computes as Number(x * 10000n / y) / 100 are kept  *)
(* as the integer x * 10000 \div y (hundredths of a percent), so 51% is    *)
(* 5100 and 25% is 2500.  JavaScript strings that the code searches with   *)
(* includes() are sequences of one-character strings; an emoji is one      *)
(* element, written "<x>", "<warn>", "<ok>", "<info>", "<stop>",           *)
(* "<yellow>", "<siren>".  Strings that are only compared with === or      *)
(* displayed are TLA+ strings.                                             *)
(***************************************************************************)
EXTENDS Integers, Sequences, FiniteSets, TLC

VARIABLES
  ver,               \* which iteration of the analyzer runs
  pc,                \* position of analyzeToken (the await it is at)
  failedCalls,       \* the fetchers of this run whose external calls failed
  tokenInfo,         \* result of getTokenInfo / fetchTokenInfoFromBlockscout
  contractAnalysis,  \* result of analyzeContractFeatures
  verified,          \* result of checkContractVerified
  holderEnv,         \* what the explorer answered to the holder-list request
  holderAnalysis,    \* result of analyzeHolderDistribution
  ownership,         \* result of analyzeOwnership
  taxes,             \* result of analyzeTaxes
  lpEnv,             \* what the chain answered to analyzeLiquidity's calls
  liquidity,         \* result of analyzeLiquidity
  simEnv,            \* what the chain answered to simulateTrading's dry runs
  simulation,        \* result of simulateTrading
  activity,          \* result of analyzeTradingActivity
  security,          \* result of analyzeSecurityFeatures
  riskAssessment,    \* result of calculateComprehensiveRisk
  previous,          \* the assessment of the input before one condition worsened
  bot,               \* the chat front end: its messages, limiters and replies
  result             \* what analyzeToken returned: "none", "report", "error"

vars == <<ver, pc, failedCalls, tokenInfo, contractAnalysis, verified, holderEnv,
          holderAnalysis, ownership, taxes, lpEnv, liquidity, simEnv, simulation, activity, security,
          riskAssessment, previous, bot, result>>

Versions == {"analyzer_js", "part_006", "part_007"}

(***************************************************************************)
(* Bounds of the model.                                                    *)
(***************************************************************************)
MaxLocks == 2

MaxBase == 2

\* the most holders the explorer lists
MaxHolders == 3

\* the most messages the chats send
MaxRequests == 3

(***************************************************************************)
(* Helpers.                                                                *)
(***************************************************************************)
Min(a, b) == IF a <= b THEN a ELSE b

Max(a, b) == IF a >= b THEN a ELSE b

RECURSIVE SumOver(_, _)
SumOver(f, S) ==
  IF S = {} THEN 0
  ELSE LET x == CHOOSE y \in S : TRUE IN f[x] + SumOver(f, S \ {x})

\* Number(a * 10000n / b): hundredths of a percent, BigInt division truncates
Pct(a, b) == (a * 10000) \div b

(***************************************************************************)
(* Liquidity: findLiquidityPair, the locker checks, analyzeLiquidity.      *)
(***************************************************************************)
ZeroAddress == "0x0000000000000000000000000000000000000000"

TokenAddr == "0xTOKEN"

PairA == "0xPAIR_A"

PairB == "0xPAIR_B"

PairC == "0xPAIR_C"

OtherToken == "0xOTHER"

\* a JS value is truthy and not the zero address
IsPair(a) == a /= "null" /\ a /= "throw" /\ a /= ZeroAddress

\* for (const baseToken of BASE_TOKENS) with a try/catch around each getPair:
\* the first non-zero answer, a failed lookup is skipped
RECURSIVE FirstPairSkipping(_)
FirstPairSkipping(basePairs) ==
  IF basePairs = <<>> THEN ZeroAddress
  ELSE IF IsPair(Head(basePairs)) THEN Head(basePairs)
  ELSE FirstPairSkipping(Tail(basePairs))

\* the same loop inside one try/catch: a failed lookup ends the loop
RECURSIVE FirstPairAborting(_)
FirstPairAborting(basePairs) ==
  IF basePairs = <<>> THEN ZeroAddress
  ELSE IF Head(basePairs) = "throw" THEN ZeroAddress
  ELSE IF IsPair(Head(basePairs)) THEN Head(basePairs)
  ELSE FirstPairAborting(Tail(basePairs))

\* strategy 1 pair(), strategy 2 the factory; part_006 has a catch per base
\* token, part_007 and analyzer.js one try block around the loop; strategy 3
\* only logs (part_006) or always answers the zero address
findLiquidityPair(v, e) ==
  IF IsPair(e.ownPair) THEN e.ownPair
  ELSE IF e.FACTORY_ADDRESS /\ Len(e.basePairs) > 0
       THEN IF v = "part_006" THEN FirstPairSkipping(e.basePairs)
            ELSE FirstPairAborting(e.basePairs)
       ELSE ZeroAddress

NoLock ==
  [locked |-> FALSE, lockedAmount |-> 0, lockedPercent |-> 0, unlockTime |-> 0]

RECURSIVE SumAmounts(_, _)
SumAmounts(locks, ids) ==
  IF ids = {} THEN 0
  ELSE LET i == CHOOSE j \in ids : TRUE
       IN locks[i].amount + SumAmounts(locks, ids \ {i})

LockedResult(locks, ids, totalLPSupply) ==
  [locked |-> TRUE,
   lockedAmount |-> SumAmounts(locks, ids),
   lockedPercent |-> Min(Pct(SumAmounts(locks, ids), totalLPSupply), 10000),
   unlockTime |-> CHOOSE t \in {locks[i].unlockTime : i \in ids} :
                   \A i \in ids : t <= locks[i].unlockTime]

\* part_006: Locked events of the last 100000 blocks, each lock read back with
\* getUserLocks; a lock counts when it is not unlocked, is for this LP token and
\* currentTimestamp < unlockTime.  e.events holds lockId + 1 of each event.
ActiveLocks_p006(lpPair, e) ==
  {i \in e.events \ e.unreadable :
     /\ i <= Len(e.locks)
     /\ ~e.locks[i].unlocked
     /\ e.locks[i].token = lpPair
     /\ e.now < e.locks[i].unlockTime}

checkLockerStatus_p006(lpPair, totalLPSupply, e) ==
  IF ~e.LOCKER_ADDRESS \/ e.lockerFail THEN NoLock
  ELSE IF ActiveLocks_p006(lpPair, e) /= {} /\ totalLPSupply > 0
       THEN LockedResult(e.locks, ActiveLocks_p006(lpPair, e), totalLPSupply)
       ELSE NoLock

\* part_007: getUserLocks(lpPair); a lock counts when it is not unlocked and is
\* for this LP token
ActiveLocks_p007(lpPair, e) ==
  {i \in 1..Len(e.locks) : ~e.locks[i].unlocked /\ e.locks[i].token = lpPair}

checkLockerStatus_p007(lpPair, totalLPSupply, e) ==
  IF ~e.LOCKER_ADDRESS \/ e.lockerFail THEN NoLock
  ELSE IF ActiveLocks_p007(lpPair, e) /= {} /\ totalLPSupply > 0
       THEN LockedResult(e.locks, ActiveLocks_p007(lpPair, e), totalLPSupply)
       ELSE NoLock

\* analyzer.js getTotalLPSupply: a second totalSupply() call, 0n when it fails
getTotalLPSupply(e) == IF e.supplyRetryFail THEN 0 ELSE e.lpSupply

\* analyzer.js: getUserLocks(lpPair); any non-empty list is "locked", every
\* lock's amount is summed, unlockTime is the latest
checkLPLockStatus(lpPair, e) ==
  IF ~e.LOCKER_ADDRESS \/ e.lockerFail \/ Len(e.locks) = 0
  THEN [locked |-> FALSE, lockedAmount |-> 0, lockedPercent |-> 0, unlockTime |-> 0]
  ELSE [locked |-> TRUE,
        lockedAmount |-> SumAmounts(e.locks, 1..Len(e.locks)),
        lockedPercent |->
          IF getTotalLPSupply(e) > 0
          THEN Min(Pct(SumAmounts(e.locks, 1..Len(e.locks)), getTotalLPSupply(e)), 10000)
          ELSE 0,
        unlockTime |-> CHOOSE t \in {e.locks[i].unlockTime : i \in 1..Len(e.locks)} :
                        \A i \in 1..Len(e.locks) : t >= e.locks[i].unlockTime]

\* lpPercentBurned = lpSupply > 0n ? Number(deadBalance * 10000n / lpSupply) / 100 : 0
BurnedPercent(e) == IF e.lpSupply > 0 THEN Pct(e.deadBalance, e.lpSupply) ELSE 0

\* the LP contract calls in the order the code awaits them; e.failAt names the
\* first one that throws
\* part_007 also awaits provider.getBlockNumber() there when the pair's creation
\* time is unknown; analyzer.js swallows that call's failure
LpCalls == <<"totalSupply", "balanceOf", "token0", "token1", "getBlockNumber">>

CallIndex(c) == CHOOSE i \in 1..Len(LpCalls) : LpCalls[i] = c

\* whether the call c was answered before the failure
Answered(e, c) == e.failAt = "none" \/ CallIndex(c) < CallIndex(e.failAt)

(***************************************************************************)
(* Wrong tier tables: the properties of the liquidity tier must tell them  *)
(* from the code's.                                                        *)
(***************************************************************************)
\* a lock below 25% rated like a burn below 25%
LockTierAsBurn(lockedPercent) ==
  IF lockedPercent >= 5100 THEN "LOW"
  ELSE IF lockedPercent >= 2500 THEN "MEDIUM"
  ELSE "CRITICAL"

\* every burn below 51% rated CRITICAL
BurnTierHarsh(burned) ==
  IF burned >= 5100 THEN "LOW" ELSE "CRITICAL"

\* the burn-percent rows shared by the two else-if chains
BurnTier(burned) ==
  IF burned >= 5100 THEN "LOW"
  ELSE IF burned >= 2500 THEN "MEDIUM"
  ELSE "CRITICAL"

BurnStatus(burned) ==
  IF burned >= 5100 THEN "LP BURNED"
  ELSE IF burned >= 2500 THEN "LP PARTIALLY BURNED (INSUFFICIENT)"
  ELSE "LP UNLOCKED & UNBURNED - HIGH RUG PULL RISK"

LockTier(lockedPercent) ==
  IF lockedPercent >= 5100 THEN "LOW"
  ELSE IF lockedPercent >= 2500 THEN "MEDIUM"
  ELSE "HIGH"

LockStatusText(lockedPercent) ==
  IF lockedPercent >= 5100 THEN "LP LOCKED"
  ELSE IF lockedPercent >= 2500 THEN "LP PARTIALLY LOCKED"
  ELSE "LP MINIMALLY LOCKED (INSUFFICIENT)"

\* part_006 / part_007 analyzeLiquidity, given the pair found and the answer of
\* checkLockerStatus (asked only when LOCKER_ADDRESS is set and the LP calls
\* were all answered)
analyzeLiquidityTiered(lpPair, e, lockStatus) ==
  LET burned == IF Answered(e, "balanceOf") THEN BurnedPercent(e) ELSE 0
      paired == IF Answered(e, "token1") THEN OtherToken ELSE "null"
      base == [lpStatus |-> "No LP found", lpPercentBurned |-> 0, lpPair |-> lpPair,
               pairedToken |-> "null", hasLiquidity |-> lpPair /= "null",
               lpLocked |-> FALSE, lockedAmount |-> 0, lockedPercent |-> 0,
               unlockTime |-> 0, lpRiskLevel |-> "HIGH"]
  IN IF ~IsPair(lpPair)
     THEN [base EXCEPT !.lpStatus = "NO LIQUIDITY FOUND - CRITICAL RISK",
                       !.lpRiskLevel = "CRITICAL"]
     ELSE IF e.failAt /= "none"
     THEN [base EXCEPT !.lpStatus = "Liquidity check failed - CRITICAL RISK",
                       !.lpPercentBurned = burned,
                       !.pairedToken = paired,
                       !.lpRiskLevel = "CRITICAL"]
     ELSE IF e.LOCKER_ADDRESS /\ lockStatus.locked
     THEN [base EXCEPT !.lpStatus = LockStatusText(lockStatus.lockedPercent),
                       !.lpPercentBurned = burned,
                       !.pairedToken = paired,
                       !.lpLocked = TRUE,
                       !.lockedAmount = lockStatus.lockedAmount,
                       !.lockedPercent = lockStatus.lockedPercent,
                       !.unlockTime = lockStatus.unlockTime,
                       !.lpRiskLevel = LockTier(lockStatus.lockedPercent)]
     ELSE [base EXCEPT !.lpStatus = BurnStatus(burned),
                       !.lpPercentBurned = burned,
                       !.pairedToken = paired,
                       !.lpRiskLevel = BurnTier(burned)]

\* analyzer.js analyzeLiquidity: no risk tier; the locker is asked only when
\* LOCKER_ADDRESS is set and lpPercentBurned < 100
analyzeLiquidity_js(e) ==
  LET lpPair == findLiquidityPair("analyzer_js", e)
      burned == IF Answered(e, "balanceOf") THEN BurnedPercent(e) ELSE 0
      paired == IF Answered(e, "token1") THEN OtherToken ELSE "null"
      lockStatus == checkLPLockStatus(lpPair, e)
      base == [lpStatus |-> "No LP found", lpPercentBurned |-> 0, lpPair |-> lpPair,
               pairedToken |-> "null", hasLiquidity |-> lpPair /= "null",
               lpLocked |-> FALSE, lockedAmount |-> 0, lockedPercent |-> 0,
               unlockTime |-> 0, lpRiskLevel |-> "undefined",
               lpAgeDays |-> IF IsPair(lpPair) /\ e.failAt = "none"
                             THEN e.lpAgeDraw ELSE 0]
  IN IF ~IsPair(lpPair) THEN base
     ELSE IF e.failAt /= "none"
     THEN [base EXCEPT !.lpPercentBurned = burned, !.pairedToken = paired]
     ELSE IF e.LOCKER_ADDRESS /\ burned < 10000
     THEN IF lockStatus.locked
          THEN [base EXCEPT !.lpStatus = "LP Locked",
                            !.lpPercentBurned = burned,
                            !.pairedToken = paired,
                            !.lpLocked = TRUE,
                            !.lockedAmount = lockStatus.lockedAmount,
                            !.lockedPercent = lockStatus.lockedPercent,
                            !.unlockTime = lockStatus.unlockTime]
          ELSE [base EXCEPT !.lpStatus = IF burned >= 5100 THEN "LP Burned"
                                         ELSE "LP Only Burned",
                            !.lpPercentBurned = burned,
                            !.pairedToken = paired]
     ELSE [base EXCEPT !.lpStatus = IF burned >= 5100 THEN "LP Burned"
                                    ELSE "No LP found",
                       !.lpPercentBurned = burned,
                       !.pairedToken = paired]

analyzeLiquidity(v, e) ==
  CASE v = "part_006" ->
         analyzeLiquidityTiered(findLiquidityPair(v, e), e,
           checkLockerStatus_p006(findLiquidityPair(v, e), e.lpSupply, e))
    [] v = "part_007" ->
         analyzeLiquidityTiered(findLiquidityPair(v, e), e,
           checkLockerStatus_p007(findLiquidityPair(v, e), e.lpSupply, e))
    [] OTHER -> analyzeLiquidity_js(e)

\* the lock-status check each iteration's analyzeLiquidity calls on the pair found
checkLockerStatus(v, e) ==
  CASE v = "part_006" ->
         checkLockerStatus_p006(findLiquidityPair("part_006", e), e.lpSupply, e)
    [] v = "part_007" ->
         checkLockerStatus_p007(findLiquidityPair("part_007", e), e.lpSupply, e)
    [] OTHER -> checkLPLockStatus(findLiquidityPair("analyzer_js", e), e)

(***************************************************************************)
(* JavaScript strings as sequences of characters.                          *)
(***************************************************************************)
UpperCase ==
  <<"A", "B", "C", "D", "E", "F", "G", "H", "I", "J", "K", "L", "M", "N", "O", "P",
    "Q", "R", "S", "T", "U", "V", "W", "X", "Y", "Z">>

LowerCase ==
  <<"a", "b", "c", "d", "e", "f", "g", "h", "i", "j", "k", "l", "m", "n", "o", "p",
    "q", "r", "s", "t", "u", "v", "w", "x", "y", "z">>

\* the lower-case letter of each upper-case letter, and the reverse
\* SubSeq makes the converted string a sequence of characters again
toLowerCase(s) ==
  LET ToLower == [c \in {UpperCase[n] : n \in 1..Len(UpperCase)} |->
                    LowerCase[CHOOSE n \in 1..Len(UpperCase) : UpperCase[n] = c]]
  IN SubSeq([i \in 1..Len(s) |-> IF s[i] \in DOMAIN ToLower THEN ToLower[s[i]] ELSE s[i]],
            1, Len(s))

toUpperCase(s) ==
  LET ToUpper == [c \in {LowerCase[n] : n \in 1..Len(UpperCase)} |->
                    UpperCase[CHOOSE n \in 1..Len(UpperCase) : LowerCase[n] = c]]
  IN SubSeq([i \in 1..Len(s) |-> IF s[i] \in DOMAIN ToUpper THEN ToUpper[s[i]] ELSE s[i]],
            1, Len(s))

\* s.includes(p)
includes(s, p) ==
  \E i \in 0..(Len(s) - Len(p)) : \A j \in 1..Len(p) : s[i + j] = p[j]

\* s.substring(0, n)
substring(s, n) == SubSeq(s, 1, Min(n, Len(s)))

(***************************************************************************)
(* The texts of the honeypot simulator.                                    *)
(***************************************************************************)
\* Words the code searches for.
W ==
  [\* "insufficient balance"
   insufficient_balance |->
     <<"i", "n", "s", "u", "f", "f", "i", "c", "i", "e", "n", "t", " ", "b", "a", "l",
       "a", "n", "c", "e">>,
   \* "transfer amount exceeds"
   transfer_amount_exceeds |->
     <<"t", "r", "a", "n", "s", "f", "e", "r", " ", "a", "m", "o", "u", "n", "t", " ",
       "e", "x", "c", "e", "e", "d", "s">>,
   \* "transfer amount exceeds balance"
   transfer_amount_exceeds_balance |->
     <<"t", "r", "a", "n", "s", "f", "e", "r", " ", "a", "m", "o", "u", "n", "t", " ",
       "e", "x", "c", "e", "e", "d", "s", " ", "b", "a", "l", "a", "n", "c", "e">>,
   \* "insufficient allowance"
   insufficient_allowance |->
     <<"i", "n", "s", "u", "f", "f", "i", "c", "i", "e", "n", "t", " ", "a", "l", "l",
       "o", "w", "a", "n", "c", "e">>,
   \* "insufficient eth amount"
   insufficient_eth_amount |->
     <<"i", "n", "s", "u", "f", "f", "i", "c", "i", "e", "n", "t", " ", "e", "t", "h",
       " ", "a", "m", "o", "u", "n", "t">>,
   \* "insufficient liquidity"
   insufficient_liquidity |->
     <<"i", "n", "s", "u", "f", "f", "i", "c", "i", "e", "n", "t", " ", "l", "i", "q",
       "u", "i", "d", "i", "t", "y">>,
   \* "revert"
   revert |->
     <<"r", "e", "v", "e", "r", "t">>,
   \* "require"
   require |->
     <<"r", "e", "q", "u", "i", "r", "e">>,
   \* "balance"
   balance |->
     <<"b", "a", "l", "a", "n", "c", "e">>,
   \* "expired"
   expired |->
     <<"e", "x", "p", "i", "r", "e", "d">>,
   \* "transferfrom"
   transferfrom |->
     <<"t", "r", "a", "n", "s", "f", "e", "r", "f", "r", "o", "m">>,
   \* "k"
   k |->
     <<"k">>,
   \* "insufficient"
   insufficient |->
     <<"i", "n", "s", "u", "f", "f", "i", "c", "i", "e", "n", "t">>,
   \* "liquidity"
   liquidity |->
     <<"l", "i", "q", "u", "i", "d", "i", "t", "y">>,
   \* "amount"
   amount |->
     <<"a", "m", "o", "u", "n", "t">>,
   \* "slippage"
   slippage |->
     <<"s", "l", "i", "p", "p", "a", "g", "e">>,
   \* "deadline"
   deadline |->
     <<"d", "e", "a", "d", "l", "i", "n", "e">>,
   \* "failed"
   failed |->
     <<"f", "a", "i", "l", "e", "d">>,
   \* "expected"
   expected |->
     <<"e", "x", "p", "e", "c", "t", "e", "d">>,
   \* "inconclusive"
   inconclusive |->
     <<"i", "n", "c", "o", "n", "c", "l", "u", "s", "i", "v", "e">>,
   \* "missing"
   missing |->
     <<"m", "i", "s", "s", "i", "n", "g">>,
   \* "data"
   data |->
     <<"d", "a", "t", "a">>,
   \* "sell"
   sell |->
     <<"s", "e", "l", "l">>,
   \* "buy"
   buy |->
     <<"b", "u", "y">>,
   \* "transfer"
   transfer |->
     <<"t", "r", "a", "n", "s", "f", "e", "r">>,
   \* "HIGH"
   HIGH |->
     <<"H", "I", "G", "H">>,
   \* "POTENTIAL"
   POTENTIAL |->
     <<"P", "O", "T", "E", "N", "T", "I", "A", "L">>,
   \* "MODERATE"
   MODERATE |->
     <<"M", "O", "D", "E", "R", "A", "T", "E">>]

\* The reasons extractErrorReason answers.
R ==
  [\* "transfer failed"
   transfer_failed |->
     <<"t", "r", "a", "n", "s", "f", "e", "r", " ", "f", "a", "i", "l", "e", "d">>,
   \* "generic revert"
   generic_revert |->
     <<"g", "e", "n", "e", "r", "i", "c", " ", "r", "e", "v", "e", "r", "t">>,
   \* "insufficient funds"
   insufficient_funds |->
     <<"i", "n", "s", "u", "f", "f", "i", "c", "i", "e", "n", "t", " ", "f", "u", "n",
       "d", "s">>,
   \* "deadline expired"
   deadline_expired |->
     <<"d", "e", "a", "d", "l", "i", "n", "e", " ", "e", "x", "p", "i", "r", "e", "d">>,
   \* "low liquidity"
   low_liquidity |->
     <<"l", "o", "w", " ", "l", "i", "q", "u", "i", "d", "i", "t", "y">>,
   \* "invalid amount"
   invalid_amount |->
     <<"i", "n", "v", "a", "l", "i", "d", " ", "a", "m", "o", "u", "n", "t">>,
   \* "price impact"
   price_impact |->
     <<"p", "r", "i", "c", "e", " ", "i", "m", "p", "a", "c", "t">>,
   \* "time expired"
   time_expired |->
     <<"t", "i", "m", "e", " ", "e", "x", "p", "i", "r", "e", "d">>,
   \* "..."
   ellipsis |->
     <<".", ".", ".">>]

\* The texts simulateTrading and assessHoneypotRisk write, analyzer.js.
Js ==
  [\* "<ok> Transfer successful"
   TransferOk |->
     <<"<ok>", " ", "T", "r", "a", "n", "s", "f", "e", "r", " ", "s", "u", "c", "c",
       "e", "s", "s", "f", "u", "l">>,
   \* "<info> Transfer needs balance (expected)"
   TransferExpected |->
     <<"<info>", " ", "T", "r", "a", "n", "s", "f", "e", "r", " ", "n", "e", "e", "d",
       "s", " ", "b", "a", "l", "a", "n", "c", "e", " ", "(", "e", "x", "p", "e", "c",
       "t", "e", "d", ")">>,
   \* "<x> Transfer failed: "
   TransferFailed |->
     <<"<x>", " ", "T", "r", "a", "n", "s", "f", "e", "r", " ", "f", "a", "i", "l",
       "e", "d", ":", " ">>,
   \* "<warn> Cannot simulate buy (no LP/router)"
   NoBuy |->
     <<"<warn>", " ", "C", "a", "n", "n", "o", "t", " ", "s", "i", "m", "u", "l", "a",
       "t", "e", " ", "b", "u", "y", " ", "(", "n", "o", " ", "L", "P", "/", "r", "o",
       "u", "t", "e", "r", ")">>,
   \* "<warn> Cannot simulate sell (no LP/router)"
   NoSell |->
     <<"<warn>", " ", "C", "a", "n", "n", "o", "t", " ", "s", "i", "m", "u", "l", "a",
       "t", "e", " ", "s", "e", "l", "l", " ", "(", "n", "o", " ", "L", "P", "/", "r",
       "o", "u", "t", "e", "r", ")">>,
   \* " simulation successful"
   SimulationSuccessful |->
     <<" ", "s", "i", "m", "u", "l", "a", "t", "i", "o", "n", " ", "s", "u", "c", "c",
       "e", "s", "s", "f", "u", "l">>,
   \* " simulation: "
   Simulation |->
     <<" ", "s", "i", "m", "u", "l", "a", "t", "i", "o", "n", ":", " ">>,
   \* " (expected with no balance)"
   ExpectedNoBalance |->
     <<" ", "(", "e", "x", "p", "e", "c", "t", "e", "d", " ", "w", "i", "t", "h", " ",
       "n", "o", " ", "b", "a", "l", "a", "n", "c", "e", ")">>,
   \* " simulation failed: "
   SimulationFailed |->
     <<" ", "s", "i", "m", "u", "l", "a", "t", "i", "o", "n", " ", "f", "a", "i", "l",
       "e", "d", ":", " ">>,
   \* "<stop> HIGH HONEYPOT RISK - Multiple simulation failures"
   HighHoneypot |->
     <<"<stop>", " ", "H", "I", "G", "H", " ", "H", "O", "N", "E", "Y", "P", "O", "T",
       " ", "R", "I", "S", "K", " ", "-", " ", "M", "u", "l", "t", "i", "p", "l", "e",
       " ", "s", "i", "m", "u", "l", "a", "t", "i", "o", "n", " ", "f", "a", "i", "l",
       "u", "r", "e", "s">>,
   \* "<yellow> POTENTIAL HONEYPOT - Sell/transfer issues detected"
   PotentialHoneypot |->
     <<"<yellow>", " ", "P", "O", "T", "E", "N", "T", "I", "A", "L", " ", "H", "O",
       "N", "E", "Y", "P", "O", "T", " ", "-", " ", "S", "e", "l", "l", "/", "t", "r",
       "a", "n", "s", "f", "e", "r", " ", "i", "s", "s", "u", "e", "s", " ", "d", "e",
       "t", "e", "c", "t", "e", "d">>,
   \* "<yellow> MODERATE HONEYPOT RISK - Transaction simulation concerns"
   ModerateHoneypot |->
     <<"<yellow>", " ", "M", "O", "D", "E", "R", "A", "T", "E", " ", "H", "O", "N",
       "E", "Y", "P", "O", "T", " ", "R", "I", "S", "K", " ", "-", " ", "T", "r", "a",
       "n", "s", "a", "c", "t", "i", "o", "n", " ", "s", "i", "m", "u", "l", "a", "t",
       "i", "o", "n", " ", "c", "o", "n", "c", "e", "r", "n", "s">>,
   \* "<ok> NO HONEYPOT INDICATORS - Simulations passed"
   NoHoneypot |->
     <<"<ok>", " ", "N", "O", " ", "H", "O", "N", "E", "Y", "P", "O", "T", " ", "I",
       "N", "D", "I", "C", "A", "T", "O", "R", "S", " ", "-", " ", "S", "i", "m", "u",
       "l", "a", "t", "i", "o", "n", "s", " ", "p", "a", "s", "s", "e", "d">>]

\* The texts simulateTrading and assessHoneypotRisk write, part_006 and part_007.
P ==
  [\* "<ok> Transfer simulation passed"
   TransferOk |->
     <<"<ok>", " ", "T", "r", "a", "n", "s", "f", "e", "r", " ", "s", "i", "m", "u",
       "l", "a", "t", "i", "o", "n", " ", "p", "a", "s", "s", "e", "d">>,
   \* "<info> Transfer needs balance (expected - not a honeypot)"
   TransferExpected |->
     <<"<info>", " ", "T", "r", "a", "n", "s", "f", "e", "r", " ", "n", "e", "e", "d",
       "s", " ", "b", "a", "l", "a", "n", "c", "e", " ", "(", "e", "x", "p", "e", "c",
       "t", "e", "d", " ", "-", " ", "n", "o", "t", " ", "a", " ", "h", "o", "n", "e",
       "y", "p", "o", "t", ")">>,
   \* "<warn> Transfer simulation inconclusive: "
   TransferInconclusive |->
     <<"<warn>", " ", "T", "r", "a", "n", "s", "f", "e", "r", " ", "s", "i", "m", "u",
       "l", "a", "t", "i", "o", "n", " ", "i", "n", "c", "o", "n", "c", "l", "u", "s",
       "i", "v", "e", ":", " ">>,
   \* "<ok> Buy simulation passed (approval test)"
   BuyOk |->
     <<"<ok>", " ", "B", "u", "y", " ", "s", "i", "m", "u", "l", "a", "t", "i", "o",
       "n", " ", "p", "a", "s", "s", "e", "d", " ", "(", "a", "p", "p", "r", "o", "v",
       "a", "l", " ", "t", "e", "s", "t", ")">>,
   \* "<ok> Sell simulation passed (approval test)"
   SellOk |->
     <<"<ok>", " ", "S", "e", "l", "l", " ", "s", "i", "m", "u", "l", "a", "t", "i",
       "o", "n", " ", "p", "a", "s", "s", "e", "d", " ", "(", "a", "p", "p", "r", "o",
       "v", "a", "l", " ", "t", "e", "s", "t", ")">>,
   \* "<info> Buy simulation needs balance (expected - not a honeypot)"
   BuyExpected |->
     <<"<info>", " ", "B", "u", "y", " ", "s", "i", "m", "u", "l", "a", "t", "i", "o",
       "n", " ", "n", "e", "e", "d", "s", " ", "b", "a", "l", "a", "n", "c", "e", " ",
       "(", "e", "x", "p", "e", "c", "t", "e", "d", " ", "-", " ", "n", "o", "t", " ",
       "a", " ", "h", "o", "n", "e", "y", "p", "o", "t", ")">>,
   \* "<info> Sell simulation needs balance (expected - not a honeypot)"
   SellExpected |->
     <<"<info>", " ", "S", "e", "l", "l", " ", "s", "i", "m", "u", "l", "a", "t", "i",
       "o", "n", " ", "n", "e", "e", "d", "s", " ", "b", "a", "l", "a", "n", "c", "e",
       " ", "(", "e", "x", "p", "e", "c", "t", "e", "d", " ", "-", " ", "n", "o", "t",
       " ", "a", " ", "h", "o", "n", "e", "y", "p", "o", "t", ")">>,
   \* "<warn> Buy simulation inconclusive: "
   BuyInconclusive |->
     <<"<warn>", " ", "B", "u", "y", " ", "s", "i", "m", "u", "l", "a", "t", "i", "o",
       "n", " ", "i", "n", "c", "o", "n", "c", "l", "u", "s", "i", "v", "e", ":", " ">>,
   \* "<warn> Sell simulation inconclusive: "
   SellInconclusive |->
     <<"<warn>", " ", "S", "e", "l", "l", " ", "s", "i", "m", "u", "l", "a", "t", "i",
       "o", "n", " ", "i", "n", "c", "o", "n", "c", "l", "u", "s", "i", "v", "e", ":",
       " ">>,
   \* "<info> Cannot test buy (missing LP/router data)"
   NoBuy |->
     <<"<info>", " ", "C", "a", "n", "n", "o", "t", " ", "t", "e", "s", "t", " ", "b",
       "u", "y", " ", "(", "m", "i", "s", "s", "i", "n", "g", " ", "L", "P", "/", "r",
       "o", "u", "t", "e", "r", " ", "d", "a", "t", "a", ")">>,
   \* "<info> Cannot test sell (missing LP/router data)"
   NoSell |->
     <<"<info>", " ", "C", "a", "n", "n", "o", "t", " ", "t", "e", "s", "t", " ", "s",
       "e", "l", "l", " ", "(", "m", "i", "s", "s", "i", "n", "g", " ", "L", "P", "/",
       "r", "o", "u", "t", "e", "r", " ", "d", "a", "t", "a", ")">>,
   \* "<stop> HIGH HONEYPOT RISK - Multiple critical failures"
   HighHoneypot |->
     <<"<stop>", " ", "H", "I", "G", "H", " ", "H", "O", "N", "E", "Y", "P", "O", "T",
       " ", "R", "I", "S", "K", " ", "-", " ", "M", "u", "l", "t", "i", "p", "l", "e",
       " ", "c", "r", "i", "t", "i", "c", "a", "l", " ", "f", "a", "i", "l", "u", "r",
       "e", "s">>,
   \* "<yellow> POTENTIAL HONEYPOT - Sell/transfer concerns detected"
   PotentialHoneypot |->
     <<"<yellow>", " ", "P", "O", "T", "E", "N", "T", "I", "A", "L", " ", "H", "O",
       "N", "E", "Y", "P", "O", "T", " ", "-", " ", "S", "e", "l", "l", "/", "t", "r",
       "a", "n", "s", "f", "e", "r", " ", "c", "o", "n", "c", "e", "r", "n", "s", " ",
       "d", "e", "t", "e", "c", "t", "e", "d">>,
   \* "<yellow> MODERATE CONCERNS - Multiple simulation warnings"
   ModerateConcerns |->
     <<"<yellow>", " ", "M", "O", "D", "E", "R", "A", "T", "E", " ", "C", "O", "N",
       "C", "E", "R", "N", "S", " ", "-", " ", "M", "u", "l", "t", "i", "p", "l", "e",
       " ", "s", "i", "m", "u", "l", "a", "t", "i", "o", "n", " ", "w", "a", "r", "n",
       "i", "n", "g", "s">>,
   \* "<ok> NO HONEYPOT INDICATORS - Simulations passed or expected behavior"
   NoHoneypot |->
     <<"<ok>", " ", "N", "O", " ", "H", "O", "N", "E", "Y", "P", "O", "T", " ", "I",
       "N", "D", "I", "C", "A", "T", "O", "R", "S", " ", "-", " ", "S", "i", "m", "u",
       "l", "a", "t", "i", "o", "n", "s", " ", "p", "a", "s", "s", "e", "d", " ", "o",
       "r", " ", "e", "x", "p", "e", "c", "t", "e", "d", " ", "b", "e", "h", "a", "v",
       "i", "o", "r">>,
   \* "<yellow> UNCLEAR - Insufficient simulation data"
   Unclear |->
     <<"<yellow>", " ", "U", "N", "C", "L", "E", "A", "R", " ", "-", " ", "I", "n",
       "s", "u", "f", "f", "i", "c", "i", "e", "n", "t", " ", "s", "i", "m", "u", "l",
       "a", "t", "i", "o", "n", " ", "d", "a", "t", "a">>]

\* Revert reasons a dry run can come back with.
Rv ==
  [\* "ERC20: transfer amount exceeds balance"
   ExceedsBalance |->
     <<"E", "R", "C", "2", "0", ":", " ", "t", "r", "a", "n", "s", "f", "e", "r", " ",
       "a", "m", "o", "u", "n", "t", " ", "e", "x", "c", "e", "e", "d", "s", " ", "b",
       "a", "l", "a", "n", "c", "e">>,
   \* "ERC20: insufficient allowance"
   InsufficientAllowance |->
     <<"E", "R", "C", "2", "0", ":", " ", "i", "n", "s", "u", "f", "f", "i", "c", "i",
       "e", "n", "t", " ", "a", "l", "l", "o", "w", "a", "n", "c", "e">>,
   \* "Insufficient Balance"
   InsufficientBalance |->
     <<"I", "n", "s", "u", "f", "f", "i", "c", "i", "e", "n", "t", " ", "B", "a", "l",
       "a", "n", "c", "e">>,
   \* "Router: deadline EXPIRED"
   Expired |->
     <<"R", "o", "u", "t", "e", "r", ":", " ", "d", "e", "a", "d", "l", "i", "n", "e",
       " ", "E", "X", "P", "I", "R", "E", "D">>,
   \* "Insufficient liquidity for this trade"
   InsufficientLiquidity |->
     <<"I", "n", "s", "u", "f", "f", "i", "c", "i", "e", "n", "t", " ", "l", "i", "q",
       "u", "i", "d", "i", "t", "y", " ", "f", "o", "r", " ", "t", "h", "i", "s", " ",
       "t", "r", "a", "d", "e">>,
   \* "Trading disabled"
   TradingDisabled |->
     <<"T", "r", "a", "d", "i", "n", "g", " ", "d", "i", "s", "a", "b", "l", "e", "d">>,
   \* "execution reverted"
   ExecutionReverted |->
     <<"e", "x", "e", "c", "u", "t", "i", "o", "n", " ", "r", "e", "v", "e", "r", "t",
       "e", "d">>,
   \* "Pancake: K"
   PancakeK |->
     <<"P", "a", "n", "c", "a", "k", "e", ":", " ", "K">>,
   \* "Trading is not enabled yet for this asset, please come later"
   Long |->
     <<"T", "r", "a", "d", "i", "n", "g", " ", "i", "s", " ", "n", "o", "t", " ", "e",
       "n", "a", "b", "l", "e", "d", " ", "y", "e", "t", " ", "f", "o", "r", " ", "t",
       "h", "i", "s", " ", "a", "s", "s", "e", "t", ",", " ", "p", "l", "e", "a", "s",
       "e", " ", "c", "o", "m", "e", " ", "l", "a", "t", "e", "r">>]

(***************************************************************************)
(* The honeypot simulator: simulateTrading, simulateRouterSwap,            *)
(* extractErrorReason, assessHoneypotRisk.                                 *)
(***************************************************************************)
\* analyzer.js extractErrorReason: the first pattern the lower-cased message
\* contains, else the message cut to 50 characters
extractErrorReason_js(message) ==
  LET m == toLowerCase(message)
  IN IF includes(m, W.transferfrom) THEN R.transfer_failed
     ELSE IF includes(m, W.k) THEN R.generic_revert
     ELSE IF includes(m, W.insufficient) THEN R.insufficient_funds
     ELSE IF includes(m, W.expired) THEN R.deadline_expired
     ELSE IF includes(m, W.liquidity) THEN R.low_liquidity
     ELSE IF Len(message) > 50 THEN substring(message, 50) \o R.ellipsis
     ELSE message

\* part_006 / part_007 extractErrorReason: four more patterns
extractErrorReason_p(message) ==
  LET m == toLowerCase(message)
  IN IF includes(m, W.transferfrom) THEN R.transfer_failed
     ELSE IF includes(m, W.k) THEN R.generic_revert
     ELSE IF includes(m, W.insufficient) THEN R.insufficient_funds
     ELSE IF includes(m, W.expired) THEN R.deadline_expired
     ELSE IF includes(m, W.liquidity) THEN R.low_liquidity
     ELSE IF includes(m, W.amount) THEN R.invalid_amount
     ELSE IF includes(m, W.balance) THEN W.insufficient_balance
     ELSE IF includes(m, W.slippage) THEN R.price_impact
     ELSE IF includes(m, W.deadline) THEN R.time_expired
     ELSE IF Len(message) > 50 THEN substring(message, 50) \o R.ellipsis
     ELSE message

\* Object.values(simulations)
Values(simulations) == <<simulations.transfer, simulations.buy, simulations.sell>>

\* analyzer.js assessHoneypotRisk
assessHoneypotRisk_js(simulations) ==
  LET failures == SelectSeq(Values(simulations), LAMBDA s : includes(s, <<"<x>">>))
      transferFailed == /\ includes(simulations.transfer, <<"<x>">>)
                        /\ ~includes(simulations.transfer, W.expected)
      sellFailed == /\ includes(simulations.sell, <<"<x>">>)
                    /\ ~includes(simulations.sell, W.expected)
  IN IF Len(failures) >= 2 THEN Js.HighHoneypot
     ELSE IF /\ Len(failures) = 1
             /\ \/ includes(toLowerCase(failures[1]), W.sell)
                \/ includes(toLowerCase(failures[1]), W.transfer)
     THEN Js.PotentialHoneypot
     ELSE IF transferFailed \/ sellFailed THEN Js.ModerateHoneypot
     ELSE Js.NoHoneypot

Critical_p(s) ==
  \/ includes(s, <<"<x>">>)
  \/ includes(s, W.failed) /\ ~includes(s, W.expected) /\ ~includes(s, W.inconclusive)

Warning_p(s) ==
  includes(s, <<"<warn>">>) /\ ~includes(s, W.missing) /\ ~includes(s, W.data)

PassingOrExpected_p(s) ==
  \/ includes(s, <<"<ok>">>)
  \/ includes(s, <<"<info>">>)
  \/ includes(s, W.expected)
  \/ includes(s, W.inconclusive)
  \/ includes(s, W.missing)
  \/ includes(s, W.data)

\* Wrong aggregate rule, used to show that the properties below tell it apart: the
\* verdict by the two counts alone
assessHoneypotRiskByCounts(simulations) ==
  LET criticalFailures == SelectSeq(Values(simulations), Critical_p)
      warnings == SelectSeq(Values(simulations), Warning_p)
      passingOrExpected == SelectSeq(Values(simulations), PassingOrExpected_p)
  IN IF Len(criticalFailures) >= 2 THEN P.HighHoneypot
     ELSE IF Len(criticalFailures) = 1 /\ Len(warnings) >= 1 THEN P.PotentialHoneypot
     ELSE IF Len(passingOrExpected) >= 2 THEN P.NoHoneypot
     ELSE P.Unclear

\* part_006 / part_007 assessHoneypotRisk.  One critical failure with a warning
\* whose text names neither sell nor transfer leaves the else-if chain without
\* a verdict and is settled by the count of passing probes.
assessHoneypotRisk_p(simulations) ==
  LET criticalFailures == SelectSeq(Values(simulations), Critical_p)
      warnings == SelectSeq(Values(simulations), Warning_p)
      passingOrExpected == SelectSeq(Values(simulations), PassingOrExpected_p)
      settled == IF Len(passingOrExpected) >= 2 THEN P.NoHoneypot ELSE P.Unclear
  IN IF Len(criticalFailures) >= 2 THEN P.HighHoneypot
     ELSE IF Len(criticalFailures) = 1 /\ Len(warnings) >= 1
     THEN IF \/ includes(toLowerCase(criticalFailures[1]), W.sell)
             \/ includes(toLowerCase(criticalFailures[1]), W.transfer)
          THEN P.PotentialHoneypot
          ELSE settled
     ELSE IF Len(warnings) >= 2 THEN P.ModerateConcerns
     ELSE settled

assessHoneypotRisk(v, simulations) ==
  IF v = "analyzer_js" THEN assessHoneypotRisk_js(simulations)
  ELSE assessHoneypotRisk_p(simulations)

\* analyzer.js simulateRouterSwap: the dry run of one swap, o its outcome
simulateRouterSwap(direction, o) ==
  LET reason == o.reason
      errorReason == extractErrorReason_js(reason)
      safe == \/ includes(toLowerCase(reason), W.insufficient_eth_amount)
              \/ includes(toLowerCase(reason), W.insufficient_liquidity)
              \/ includes(toLowerCase(reason), W.transfer_amount_exceeds_balance)
              \/ includes(toLowerCase(reason), W.insufficient_allowance)
              \/ includes(toLowerCase(reason), W.expired)
  IN IF o.ok THEN <<"<ok>", " ">> \o toUpperCase(direction) \o Js.SimulationSuccessful
     ELSE IF safe
     THEN <<"<info>", " ">> \o direction \o Js.Simulation \o errorReason
            \o Js.ExpectedNoBalance
     ELSE <<"<x>", " ">> \o direction \o Js.SimulationFailed \o errorReason

\* ROUTER_ADDRESS && liquidity.lpPair && liquidity.pairedToken
CanSwap(liq, e) == e.ROUTER_ADDRESS /\ liq.lpPair /= "null" /\ liq.pairedToken /= "null"

\* analyzer.js simulateTrading.  Nothing outside the inner try blocks throws, so
\* the outer catch is never entered.
simulateTrading_js(liq, e) ==
  LET transferReason == e.transfer.reason
      simulations ==
        [transfer |->
           IF e.transfer.ok THEN Js.TransferOk
           ELSE IF \/ includes(toLowerCase(transferReason), W.insufficient_balance)
                   \/ includes(toLowerCase(transferReason), W.transfer_amount_exceeds)
           THEN Js.TransferExpected
           ELSE Js.TransferFailed \o extractErrorReason_js(transferReason),
         buy |-> IF CanSwap(liq, e) THEN simulateRouterSwap(W.buy, e.buy) ELSE Js.NoBuy,
         sell |-> IF CanSwap(liq, e) THEN simulateRouterSwap(W.sell, e.sell)
                  ELSE Js.NoSell]
  IN [simulations |-> simulations, honeypotRisk |-> assessHoneypotRisk_js(simulations)]

\* part_006 / part_007 simulateTrading: a transfer of 0, then of one unit; one
\* approve() dry run stands for both the buy and the sell probe
simulateTrading_p(liq, e) ==
  LET transferReason == e.transfer.reason
      approvalReason == e.approve.reason
      expectedApproval ==
        \/ includes(toLowerCase(approvalReason), W.insufficient_allowance)
        \/ includes(toLowerCase(approvalReason), W.revert)
        \/ includes(toLowerCase(approvalReason), W.require)
        \/ includes(toLowerCase(approvalReason), W.balance)
      simulations ==
        [transfer |->
           IF e.transfer0ok \/ e.transfer.ok THEN P.TransferOk
           ELSE IF \/ includes(toLowerCase(transferReason), W.insufficient_balance)
                   \/ includes(toLowerCase(transferReason), W.transfer_amount_exceeds)
                   \/ includes(toLowerCase(transferReason), W.revert)
                   \/ includes(toLowerCase(transferReason), W.require)
           THEN P.TransferExpected
           ELSE P.TransferInconclusive \o extractErrorReason_p(transferReason),
         buy |->
           IF ~CanSwap(liq, e) THEN P.NoBuy
           ELSE IF e.approve.ok THEN P.BuyOk
           ELSE IF expectedApproval THEN P.BuyExpected
           ELSE P.BuyInconclusive \o extractErrorReason_p(approvalReason),
         sell |->
           IF ~CanSwap(liq, e) THEN P.NoSell
           ELSE IF e.approve.ok THEN P.SellOk
           ELSE IF expectedApproval THEN P.SellExpected
           ELSE P.SellInconclusive \o extractErrorReason_p(approvalReason)]
  IN [simulations |-> simulations, honeypotRisk |-> assessHoneypotRisk_p(simulations)]

simulateTrading(v, liq, e) ==
  IF v = "analyzer_js" THEN simulateTrading_js(liq, e) ELSE simulateTrading_p(liq, e)

(***************************************************************************)
(* The other fetchers of analyzeToken.                                     *)
(***************************************************************************)
\* part_006 / part_007 fetchTokenInfoFromContract: each call has its own
\* .catch() placeholder
fetchTokenInfoFromContract(e) ==
  [name |-> IF e.nameOk THEN "Token" ELSE "Unknown",
   symbol |-> IF e.symbolOk THEN "TKN" ELSE "???",
   decimals |-> 18,
   totalSupply |-> IF e.supplyOk THEN e.chainSupply ELSE 0,
   holdersCount |-> 0,
   verified |-> FALSE]

\* part_006 / part_007 fetchTokenInfoFromBlockscout: the explorer's answer, the
\* supply asked from the contract when the explorer's is 0 or invalid, and
\* fetchTokenInfoFromContract when the request fails
fetchTokenInfoFromBlockscout(e) ==
  IF e.explorerOk
  THEN [name |-> "Token", symbol |-> "TKN", decimals |-> 18,
        totalSupply |-> IF e.explorerSupply > 0 THEN e.explorerSupply
                        ELSE IF e.supplyOk THEN e.chainSupply ELSE 0,
        holdersCount |-> e.explorerHolders,
        verified |-> e.explorerVerified]
  ELSE fetchTokenInfoFromContract(e)

\* holders.js getTokenInfo: safeCall with a fallback for each call; the supply
\* becomes a Number, Number(ethers.formatUnits(totalSupply, decimals))
getTokenInfo(e) ==
  [name |-> IF e.nameOk THEN "Token" ELSE "Unknown",
   symbol |-> IF e.symbolOk THEN "TKN" ELSE "Unknown",
   decimals |-> 18,
   totalSupply |-> IF e.supplyOk THEN e.chainSupply ELSE 0,
   supplyIsSafeInteger |-> ~e.supplyOk \/ e.wholeSupply]

ResolveTokenInfo(v, e) ==
  IF v = "analyzer_js" THEN getTokenInfo(e) ELSE fetchTokenInfoFromBlockscout(e)

\* analyzeContractFeatures: without bytecode (getCode answers "0x" or fails) the
\* result has neither suspiciousPatterns nor complexityScore.  complexityScore
\* is kept in thousandths: Math.min(code.length / 1000, 10).
analyzeContractFeatures(code) ==
  IF code.kind = "throw"
  THEN [isContract |-> FALSE, warning |-> "Could not fetch contract code"]
  ELSE IF code.kind = "0x"
  THEN [isContract |-> FALSE, warning |-> "Address is not a contract"]
  ELSE [isContract |-> TRUE,
        bytecodeSize |-> code.length,
        suspiciousPatterns |->
          [canMint |-> code.canMint, canBurn |-> code.canBurn,
           hasBlacklist |-> code.hasBlacklist, hasFreeze |-> code.hasFreeze,
           hasReflection |-> code.hasReflection],
        complexityScore |-> Min(code.length, 10000)]

\* analyzeOwnership: e.owner is what getOwner() / owner() / admin() answer
\* ("throw" when none answers)
analyzeOwnership(v, e) ==
  LET owner == IF e.owner = "throw" THEN "N/A" ELSE e.owner
      ownershipRisk ==
        IF owner = ZeroAddress THEN "None (Renounced)"
        ELSE IF owner = TokenAddr THEN "Medium (Self-owned)"
        ELSE IF e.canTransfer THEN "High (Transferable)"
        ELSE "Medium (Fixed)"
  IN [owner |-> IF v = "analyzer_js" THEN owner
                ELSE IF owner = ZeroAddress THEN "RENOUNCED" ELSE owner,
      canRenounce |-> e.canRenounce,
      renounceable |-> owner = ZeroAddress,
      ownershipRisk |-> ownershipRisk]

\* the percent of the supply a max-tx / max-wallet amount is, in hundredths; 0
\* stands for a getter the contract does not have
LimitPercent(v, amount, totalSupply, supplyOk) ==
  IF v = "analyzer_js"
  THEN IF supplyOk /\ amount /= 0 /\ amount < totalSupply
       THEN ((amount * 100) \div totalSupply) * 100
       ELSE 10000
  ELSE IF totalSupply > 0 /\ amount > 0 /\ amount < totalSupply
       THEN Min(Max(Pct(amount, totalSupply), 0), 10000)
       ELSE 10000

\* analyzeTaxes: the fee getters summed, the limits as a percent of the supply
\* (analyzer.js asks the contract for the supply, the later iterations take
\* tokenInfo.totalSupply)
analyzeTaxes(v, e, totalSupply) ==
  LET supply == IF v = "analyzer_js" THEN e.chainSupply ELSE totalSupply
      maxTxPercent == LimitPercent(v, e.maxTx, supply, e.supplyOk)
      maxWalletPercent == LimitPercent(v, e.maxWallet, supply, e.supplyOk)
  IN [buyTax |-> IF v = "analyzer_js" THEN Min(e.buyFees, 100)
                 ELSE Min(Max(e.buyFees, 0), 100),
      sellTax |-> IF v = "analyzer_js" THEN Min(e.sellFees, 100)
                  ELSE Min(Max(e.sellFees, 0), 100),
      maxTxPercent |-> maxTxPercent,
      maxWalletPercent |-> maxWalletPercent,
      hasHighLimits |-> maxTxPercent >= 100 /\ maxWalletPercent >= 200]

\* "<ok> No suspicious dev activity" / "<siren> DEV ACTIVITY: ..."
Dev ==
  [Quiet |-> <<"<ok>", " ", "N", "o", " ", "s", "u", "s", "p", "i", "c", "i", "o", "u", "s">>,
   Suspicious |->
     <<"<siren>", " ", "D", "E", "V", " ", "A", "C", "T", "I", "V", "I", "T", "Y">>]

\* analyzeTradingActivity: the dev wallet is watched only when there is an
\* owner; without transfers (or when the queries fail) the counts stay 0
analyzeTradingActivity(v, e, owner) ==
  LET watched == /\ owner /= "N/A" /\ owner /= ZeroAddress
                 /\ (v = "analyzer_js" \/ owner /= "RENOUNCED")
      uniqueBuyers24h == IF e.metricsOk THEN e.uniqueBuyers ELSE 0
      totalTransactions24h == IF e.metricsOk THEN e.totalTransactions ELSE 0
  IN [devActivity |-> IF watched /\ e.devSuspicious THEN Dev.Suspicious ELSE Dev.Quiet,
      uniqueBuyers24h |-> uniqueBuyers24h,
      totalTransactions24h |-> totalTransactions24h,
      hasHealthyActivity |->
        IF v = "analyzer_js" THEN uniqueBuyers24h > 5
        ELSE uniqueBuyers24h > 5 /\ totalTransactions24h > 10]

calculateSecurityScore(features) ==
  Max(0, 10 - (IF features.mintable THEN 4 ELSE 0)
            - (IF features.blacklistCheck THEN 3 ELSE 0)
            - (IF features.pauseable THEN 2 ELSE 0)
            - (IF ~features.ownershipRenounceable THEN 1 ELSE 0))

\* analyzeSecurityFeatures: when getCode fails the remaining probes are skipped
analyzeSecurityFeatures(e) ==
  LET features ==
        [blacklistCheck |-> e.blacklisted,
         mintable |-> e.mintable,
         pauseable |-> e.codeOk /\ e.pauseable,
         ownershipRenounceable |-> e.codeOk /\ e.canRenounce]
  IN [features |-> features,
      securityScore |-> calculateSecurityScore(features),
      hasDangerousFeatures |->
        features.mintable \/ features.blacklistCheck \/ features.pauseable]

\* A JavaScript Number that need not be whole is kept as the exact fraction
\* num / den in lowest terms (den > 0), NaN as [nan |-> TRUE]; the rounding
\* error of a double is not modelled.
RECURSIVE GCD(_, _)
GCD(a, b) == IF b = 0 THEN a ELSE GCD(b, a % b)

Frac(num, den) ==
  LET g == GCD(IF num < 0 THEN -num ELSE num, den)
  IN [num |-> num \div g, den |-> den \div g]

\* over the least common denominator, which keeps the products small
FracAdd(a, b) ==
  LET lcd == (a.den \div GCD(a.den, b.den)) * b.den
  IN Frac(a.num * (lcd \div a.den) + b.num * (lcd \div b.den), lcd)

FracMul(a, b) == Frac(a.num * b.num, a.den * b.den)

\* a < b; false when either is NaN
FracLess(a, b) ==
  /\ "nan" \notin DOMAIN a
  /\ "nan" \notin DOMAIN b
  /\ LET lcd == (a.den \div GCD(a.den, b.den)) * b.den
     IN a.num * (lcd \div a.den) < b.num * (lcd \div b.den)

DeadAddress == "0x000000000000000000000000000000000000dead"

\* part_006 getFixedTopHolders: the explorer's items with a positive value, in
\* the explorer's order; percent = Number((balance * 10000n) / total) / 100,
\* clamped to 0..100.  A failed request gives [].
getFixedTopHolders(e, totalSupply) ==
  LET positive(item) == item.value > 0
      items == IF e.holdersOk THEN SelectSeq(e.items, positive) ELSE <<>>
  IN [i \in 1..Len(items) |->
        [address |-> items[i].address,
         amount |-> items[i].value,
         percent |-> IF totalSupply > 0
                     THEN Frac(Min(Pct(items[i].value, totalSupply), 10000), 100)
                     ELSE Frac(0, 1)]]

\* the indices of keys from the greatest key to the least, equal keys in their
\* order: Array.prototype.sort((a, b) => b - a) is stable
RECURSIVE OrderDesc(_, _)
OrderDesc(keys, rest) ==
  IF rest = {} THEN <<>>
  ELSE LET first == CHOOSE i \in rest :
                      \A j \in rest : keys[i] > keys[j] \/ (keys[i] = keys[j] /\ i <= j)
       IN <<first>> \o OrderDesc(keys, rest \ {first})

\* holders.js getTopHolders: address is a label (the burn address becomes
\* "<fire> Burn Address", a contract gets the suffix " [Contract]"), percent is
\* the floating-point (balance / totalSupply) * 100, the list is sorted by
\* balance.  part_007 hands it the BigInt supply of fetchTokenInfoFromBlockscout:
\* Number / BigInt throws a TypeError inside map(), which the catch block turns
\* into []; with a supply of 0n the division is not reached.
getTopHolders(v, e, totalSupply) ==
  IF ~e.holdersOk \/ (v = "part_007" /\ totalSupply > 0) THEN <<>>
  ELSE LET order == OrderDesc([i \in 1..Len(e.items) |-> e.items[i].value],
                              1..Len(e.items))
       IN [k \in 1..Len(e.items) |->
             LET h == e.items[order[k]]
             IN [address |-> [text |-> IF h.address = DeadAddress
                                       THEN "<fire> Burn Address" ELSE h.address,
                              contract |-> h.is_contract],
                 rawAddress |-> h.address,
                 balance |-> h.value,
                 percent |-> IF totalSupply > 0 THEN Frac(100 * h.value, totalSupply)
                             ELSE Frac(0, 1)]]

\* the address of an ordinary wallet that has the letters "dead" in it
VanityAddress == "0x1234dead00000000000000000000000000005678"

\* the filter of analyzeHolderDistribution: address.toLowerCase() does not
\* contain "dead" and is neither the zero address nor the token's; part_006 also
\* wants amount > 0n.  Of the addresses of the model the burn address and the
\* vanity address contain "dead"; the label of the burn address does not, and
\* a label with the suffix " [Contract]" equals no address.
LiveHolder(v, h) ==
  LET withDead == {DeadAddress, VanityAddress}
  IN IF v = "part_006"
     THEN h.address \notin withDead \cup {ZeroAddress, TokenAddr} /\ h.amount > 0
     ELSE \/ h.address.contract
          \/ h.address.text \notin withDead \cup {ZeroAddress, TokenAddr}

RECURSIVE SumPercent(_)
SumPercent(hs) ==
  IF hs = <<>> THEN Frac(0, 1) ELSE FracAdd(Head(hs).percent, SumPercent(Tail(hs)))

\* the loop of part_006 / part_007 calculateGiniCoefficient from holder i on:
\* accumulator += (cumulativeShare - (i + 1) / n) * share
RECURSIVE LorenzSum(_, _, _)
LorenzSum(shares, i, cumulativeShare) ==
  IF i > Len(shares) THEN Frac(0, 1)
  ELSE LET cumulative == FracAdd(cumulativeShare, shares[i])
       IN FracAdd(FracMul(FracAdd(cumulative, Frac(-i, Len(shares))), shares[i]),
                  LorenzSum(shares, i + 1, cumulative))

\* calculateGiniCoefficient.  part_006 takes the shares from percent / 100, sorted
\* by percent; part_007 from (amount || 0) / sum, sorted by amount; analyzer.js
\* adds share * (2 * position - 1) over amount / sum in the list's order, and a
\* holder without an amount makes the sum NaN.
calculateGiniCoefficient(v, holders) ==
  LET n == Len(holders)
      amount(h) == IF "amount" \in DOMAIN h THEN h.amount ELSE 0
      total == SumOver([i \in 1..n |-> amount(holders[i])], 1..n)
      magnitude(x) == IF x.num < 0 THEN Frac(-x.num, x.den) ELSE x
      byPercent == OrderDesc([i \in 1..n |-> holders[i].percent.num], 1..n)
      byAmount == OrderDesc([i \in 1..n |-> amount(holders[i])], 1..n)
      RECURSIVE PositionSum(_)
      PositionSum(i) ==
        IF i > n THEN Frac(0, 1)
        ELSE FracAdd(FracMul(Frac(amount(holders[i]), total), Frac(2 * i - n, n)),
                     PositionSum(i + 1))
  IN IF n = 0 THEN Frac(0, 1)
     ELSE CASE v = "part_006" ->
                 IF SumPercent(holders).num = 0 THEN Frac(0, 1)
                 ELSE magnitude(LorenzSum(
                        [k \in 1..n |-> FracMul(holders[byPercent[k]].percent, Frac(1, 100))],
                        1, Frac(0, 1)))
            [] v = "part_007" ->
                 IF total = 0 THEN Frac(0, 1)
                 ELSE magnitude(LorenzSum(
                        [k \in 1..n |-> Frac(amount(holders[byAmount[k]]), total)],
                        1, Frac(0, 1)))
            [] OTHER ->
                 IF total = 0 \/ \E i \in 1..n : "amount" \notin DOMAIN holders[i]
                 THEN [nan |-> TRUE]
                 ELSE magnitude(PositionSum(1))

\* Math.round(x * 100) / 100 of a fraction x >= 0.  100 * x is built bit by bit
\* (100 = 1100100b) as quotient and remainder, so that no product leaves the
\* 32-bit integers.
RECURSIVE TimesBits(_, _, _, _)
TimesBits(x, bits, q, r) ==
  IF bits = <<>> THEN IF 2 * r >= x.den THEN q + 1 ELSE q
  ELSE LET q2 == 2 * q + (IF 2 * r >= x.den THEN 1 ELSE 0)
           r2 == IF 2 * r >= x.den THEN 2 * r - x.den ELSE 2 * r
           r3 == r2 + Head(bits) * (x.num % x.den)
       IN TimesBits(x, Tail(bits),
                    q2 + Head(bits) * (x.num \div x.den) + (IF r3 >= x.den THEN 1 ELSE 0),
                    IF r3 >= x.den THEN r3 - x.den ELSE r3)

\* analyzeHolderDistribution.  giniCoefficient is Math.round(gini * 100) / 100;
\* part_006 reports the explorer's holder count when it is the higher one and
\* asks for more than 10 holders, the other iterations for more than 50.
analyzeHolderDistribution(v, e, info) ==
  LET allHolders == IF v = "part_006" THEN getFixedTopHolders(e, info.totalSupply)
                    ELSE getTopHolders(v, e, info.totalSupply)
      live(h) == LiveHolder(v, h)
      liveHolders == SelectSeq(allHolders, live)
      top10Percent == SumPercent(SubSeq(liveHolders, 1, Min(10, Len(liveHolders))))
      giniCoefficient == calculateGiniCoefficient(v, liveHolders)
      holderCount == IF v = "part_006" THEN Max(Len(liveHolders), info.holdersCount)
                     ELSE Len(liveHolders)
      RoundHundredths(x) ==
        IF "nan" \in DOMAIN x THEN x
        ELSE Frac(TimesBits(x, <<1, 1, 0, 0, 1, 0, 0>>, 0, 0), 100)
  IN [top10Concentration |-> top10Percent,
      giniCoefficient |-> RoundHundredths(giniCoefficient),
      totalLiveHolders |-> holderCount,
      healthyDistribution |->
        /\ FracLess(top10Percent, Frac(40, 1))
        /\ holderCount > (IF v = "part_006" THEN 10 ELSE 50)
        /\ FracLess(giniCoefficient, Frac(7, 10)),
      displayHolders |-> SubSeq(liveHolders, 1, Min(8, Len(liveHolders)))]

(***************************************************************************)
(* The risk aggregator: calculateComprehensiveRisk.                        *)
(***************************************************************************)
\* Wrong penalty, used to show that the monotonicity property tells it apart:
\* a honeypot penalty that rewards the worst verdict
HoneypotPenaltyInverted(v, honeypotRisk) ==
  IF includes(honeypotRisk, W.HIGH) THEN 0
  ELSE IF includes(honeypotRisk, W.POTENTIAL) \/ includes(honeypotRisk, W.MODERATE)
  THEN 5
  ELSE 10

\* Wrong penalty, used to show that the idempotence property tells it apart:
\* a liquidity penalty that reads the drawn LP age
LiquidityPenaltyByAge(v, liq) ==
  IF v = "analyzer_js" /\ liq.lpAgeDays < 3 THEN 15 ELSE 0

\* analyzer.js scores the burn percent, the later iterations the tier
LiquidityPenalty(v, liq) ==
  IF v = "analyzer_js"
  THEN IF ~liq.hasLiquidity THEN 20
       ELSE IF liq.lpPercentBurned < 2500 THEN 15
       ELSE IF liq.lpPercentBurned < 5100 THEN 8
       ELSE 0
  ELSE IF ~liq.hasLiquidity THEN 30
       ELSE IF liq.lpRiskLevel = "CRITICAL" THEN 25
       ELSE IF liq.lpRiskLevel = "HIGH" THEN 20
       ELSE IF liq.lpRiskLevel = "MEDIUM" THEN 12
       ELSE 0

HoneypotPenalty(v, honeypotRisk) ==
  IF v = "analyzer_js"
  THEN IF includes(honeypotRisk, W.HIGH) THEN 15
       ELSE IF includes(honeypotRisk, W.POTENTIAL) THEN 8
       ELSE 0
  ELSE IF includes(honeypotRisk, W.HIGH) THEN 10
       ELSE IF includes(honeypotRisk, W.POTENTIAL) \/ includes(honeypotRisk, W.MODERATE)
       THEN 5
       ELSE 0

\* Wrong maximum, used to show that the score bound tells it apart: the
\* maximum without the points of the liquidity branch
maxScoreWithoutLiquidity(v) == IF v = "analyzer_js" THEN 95 ELSE 80

maxScore(v) == IF v = "analyzer_js" THEN 115 ELSE 110

\* Math.round((score / maxScore) * 100); no score is half-way between two
\* percents
RoundPercent(score, max) == (200 * score + max) \div (2 * max)

Level(v, riskPercentage, liq) ==
  IF v = "analyzer_js"
  THEN IF riskPercentage >= 60 THEN "HIGH RISK"
       ELSE IF riskPercentage >= 35 THEN "MEDIUM RISK"
       ELSE "LOW RISK"
  ELSE IF riskPercentage >= 50 \/ liq.lpRiskLevel = "CRITICAL" THEN "HIGH RISK"
       ELSE IF riskPercentage >= 30 \/ liq.lpRiskLevel = "HIGH" THEN "MEDIUM RISK"
       ELSE "LOW RISK"

\* the factor texts part_006 / part_007 push
F ==
  [\* "<siren> NO LIQUIDITY - CRITICAL RISK"
   NoLiquidity |->
     <<"<siren>", " ", "N", "O", " ", "L", "I", "Q", "U", "I", "D", "I", "T", "Y", " ",
       "-", " ", "C", "R", "I", "T", "I", "C", "A", "L", " ", "R", "I", "S", "K">>,
   \* "<siren> LP UNLOCKED & UNBURNED - EXTREME RUG PULL RISK"
   LpUnlocked |->
     <<"<siren>", " ", "L", "P", " ", "U", "N", "L", "O", "C", "K", "E", "D", " ", "&",
       " ", "U", "N", "B", "U", "R", "N", "E", "D", " ", "-", " ", "E", "X", "T", "R",
       "E", "M", "E", " ", "R", "U", "G", " ", "P", "U", "L", "L", " ", "R", "I", "S",
       "K">>,
   \* "<red> INSUFFICIENT LP PROTECTION - HIGH RUG RISK"
   LpInsufficient |->
     <<"<red>", " ", "I", "N", "S", "U", "F", "F", "I", "C", "I", "E", "N", "T", " ",
       "L", "P", " ", "P", "R", "O", "T", "E", "C", "T", "I", "O", "N", " ", "-", " ",
       "H", "I", "G", "H", " ", "R", "U", "G", " ", "R", "I", "S", "K">>,
   \* "<yellow> PARTIAL LP PROTECTION - MODERATE RUG RISK"
   LpPartial |->
     <<"<yellow>", " ", "P", "A", "R", "T", "I", "A", "L", " ", "L", "P", " ", "P", "R",
       "O", "T", "E", "C", "T", "I", "O", "N", " ", "-", " ", "M", "O", "D", "E", "R",
       "A", "T", "E", " ", "R", "U", "G", " ", "R", "I", "S", "K">>,
   \* "<ok> STRONG LP PROTECTION - LOW RUG RISK"
   LpStrong |->
     <<"<ok>", " ", "S", "T", "R", "O", "N", "G", " ", "L", "P", " ", "P", "R", "O",
       "T", "E", "C", "T", "I", "O", "N", " ", "-", " ", "L", "O", "W", " ", "R", "U",
       "G", " ", "R", "I", "S", "K">>,
   \* "<whale> EXTREME WHALE CONCENTRATION"
   WhaleExtreme |->
     <<"<whale>", " ", "E", "X", "T", "R", "E", "M", "E", " ", "W", "H", "A", "L", "E",
       " ", "C", "O", "N", "C", "E", "N", "T", "R", "A", "T", "I", "O", "N">>,
   \* "<whale> HIGH WHALE CONCENTRATION"
   WhaleHigh |->
     <<"<whale>", " ", "H", "I", "G", "H", " ", "W", "H", "A", "L", "E", " ", "C", "O",
       "N", "C", "E", "N", "T", "R", "A", "T", "I", "O", "N">>,
   \* "<stop> HIGH HONEYPOT RISK"
   HoneypotHigh |->
     <<"<stop>", " ", "H", "I", "G", "H", " ", "H", "O", "N", "E", "Y", "P", "O", "T",
       " ", "R", "I", "S", "K">>,
   \* "<warn> POTENTIAL HONEYPOT CONCERNS"
   HoneypotPotential |->
     <<"<warn>", " ", "P", "O", "T", "E", "N", "T", "I", "A", "L", " ", "H", "O", "N",
       "E", "Y", "P", "O", "T", " ", "C", "O", "N", "C", "E", "R", "N", "S">>,
   \* "<siren> DANGEROUS CONTRACT FEATURES"
   Dangerous |->
     <<"<siren>", " ", "D", "A", "N", "G", "E", "R", "O", "U", "S", " ", "C", "O", "N",
       "T", "R", "A", "C", "T", " ", "F", "E", "A", "T", "U", "R", "E", "S">>,
   \* "<chart> LOW TRADING ACTIVITY"
   LowActivity |->
     <<"<chart>", " ", "L", "O", "W", " ", "T", "R", "A", "D", "I", "N", "G", " ", "A",
       "C", "T", "I", "V", "I", "T", "Y">>,
   \* "<siren> SUSPICIOUS DEV ACTIVITY"
   DevActivity |->
     <<"<siren>", " ", "S", "U", "S", "P", "I", "C", "I", "O", "U", "S", " ", "D", "E",
       "V", " ", "A", "C", "T", "I", "V", "I", "T", "Y">>]

\* The lines generateTraderInsights writes; {} stands for a value put into the
\* line, and NoHoneypotVerdict is the text it compares the verdict with.
I ==
  [ \* "<siren> CRITICAL: LP is UNLOCKED and UNBURNED - EXTREME RUG PULL RISK"
   CriticalLp |->
     <<"<siren>", " ", "C", "R", "I", "T", "I", "C", "A", "L", ":", " ", "L", "P", " ",
       "i", "s", " ", "U", "N", "L", "O", "C", "K", "E", "D", " ", "a", "n", "d", " ",
       "U", "N", "B", "U", "R", "N", "E", "D", " ", "-", " ", "E", "X", "T", "R", "E",
       "M", "E", " ", "R", "U", "G", " ", "P", "U", "L", "L", " ", "R", "I", "S", "K">>,
   \* "<warn> Only trade with money you can afford to lose completely"
   OnlyTrade |->
     <<"<warn>", " ", "O", "n", "l", "y", " ", "t", "r", "a", "d", "e", " ", "w", "i",
       "t", "h", " ", "m", "o", "n", "e", "y", " ", "y", "o", "u", " ", "c", "a", "n",
       " ", "a", "f", "f", "o", "r", "d", " ", "t", "o", " ", "l", "o", "s", "e", " ",
       "c", "o", "m", "p", "l", "e", "t", "e", "l", "y">>,
   \* "<red> HIGH RISK: Insufficient LP protection - major rug pull vulnerability"
   HighLp |->
     <<"<red>", " ", "H", "I", "G", "H", " ", "R", "I", "S", "K", ":", " ", "I", "n",
       "s", "u", "f", "f", "i", "c", "i", "e", "n", "t", " ", "L", "P", " ", "p", "r",
       "o", "t", "e", "c", "t", "i", "o", "n", " ", "-", " ", "m", "a", "j", "o", "r",
       " ", "r", "u", "g", " ", "p", "u", "l", "l", " ", "v", "u", "l", "n", "e", "r",
       "a", "b", "i", "l", "i", "t", "y">>,
   \* "<warn> Use extreme caution - consider waiting for better LP protection"
   ExtremeCaution |->
     <<"<warn>", " ", "U", "s", "e", " ", "e", "x", "t", "r", "e", "m", "e", " ", "c",
       "a", "u", "t", "i", "o", "n", " ", "-", " ", "c", "o", "n", "s", "i", "d", "e",
       "r", " ", "w", "a", "i", "t", "i", "n", "g", " ", "f", "o", "r", " ", "b", "e",
       "t", "t", "e", "r", " ", "L", "P", " ", "p", "r", "o", "t", "e", "c", "t", "i",
       "o", "n">>,
   \* "<ok> Ownership renounced - reduced rug risk"
   Renounced |->
     <<"<ok>", " ", "O", "w", "n", "e", "r", "s", "h", "i", "p", " ", "r", "e", "n",
       "o", "u", "n", "c", "e", "d", " ", "-", " ", "r", "e", "d", "u", "c", "e", "d",
       " ", "r", "u", "g", " ", "r", "i", "s", "k">>,
   \* "<lock> LP locked: {}% until {} - Strong protection"
   LpLocked |->
     <<"<lock>", " ", "L", "P", " ", "l", "o", "c", "k", "e", "d", ":", " ", "{", "}",
       "%", " ", "u", "n", "t", "i", "l", " ", "{", "}", " ", "-", " ", "S", "t", "r",
       "o", "n", "g", " ", "p", "r", "o", "t", "e", "c", "t", "i", "o", "n">>,
   \* "<fire> LP burned - liquidity is permanent"
   LpBurned |->
     <<"<fire>", " ", "L", "P", " ", "b", "u", "r", "n", "e", "d", " ", "-", " ", "l",
       "i", "q", "u", "i", "d", "i", "t", "y", " ", "i", "s", " ", "p", "e", "r", "m",
       "a", "n", "e", "n", "t">>,
   \* "<people> Healthy holder distribution - reduced whale manipulation risk"
   Healthy |->
     <<"<people>", " ", "H", "e", "a", "l", "t", "h", "y", " ", "h", "o", "l", "d", "e",
       "r", " ", "d", "i", "s", "t", "r", "i", "b", "u", "t", "i", "o", "n", " ", "-",
       " ", "r", "e", "d", "u", "c", "e", "d", " ", "w", "h", "a", "l", "e", " ", "m",
       "a", "n", "i", "p", "u", "l", "a", "t", "i", "o", "n", " ", "r", "i", "s", "k">>,
   \* "<money> Low taxes - good for trading"
   LowTaxes |->
     <<"<money>", " ", "L", "o", "w", " ", "t", "a", "x", "e", "s", " ", "-", " ", "g",
       "o", "o", "d", " ", "f", "o", "r", " ", "t", "r", "a", "d", "i", "n", "g">>,
   \* "<ok> NO HONEYPOT INDICATORS"
   NoHoneypotVerdict |->
     <<"<ok>", " ", "N", "O", " ", "H", "O", "N", "E", "Y", "P", "O", "T", " ", "I",
       "N", "D", "I", "C", "A", "T", "O", "R", "S">>,
   \* "<shield> No honeypot indicators detected"
   NoHoneypot |->
     <<"<shield>", " ", "N", "o", " ", "h", "o", "n", "e", "y", "p", "o", "t", " ", "i",
       "n", "d", "i", "c", "a", "t", "o", "r", "s", " ", "d", "e", "t", "e", "c", "t",
       "e", "d">>,
   \* "<locked> High security score - clean contract"
   SecurityHigh |->
     <<"<locked>", " ", "H", "i", "g", "h", " ", "s", "e", "c", "u", "r", "i", "t", "y",
       " ", "s", "c", "o", "r", "e", " ", "-", " ", "c", "l", "e", "a", "n", " ", "c",
       "o", "n", "t", "r", "a", "c", "t">>,
   \* "<warn> High taxes may impact profitability - consider tax efficiency"
   HighTaxes |->
     <<"<warn>", " ", "H", "i", "g", "h", " ", "t", "a", "x", "e", "s", " ", "m", "a",
       "y", " ", "i", "m", "p", "a", "c", "t", " ", "p", "r", "o", "f", "i", "t", "a",
       "b", "i", "l", "i", "t", "y", " ", "-", " ", "c", "o", "n", "s", "i", "d", "e",
       "r", " ", "t", "a", "x", " ", "e", "f", "f", "i", "c", "i", "e", "n", "c", "y">>,
   \* "<whale> Top 10 holders control {}% - watch for coordinated dumps"
   Whales |->
     <<"<whale>", " ", "T", "o", "p", " ", "1", "0", " ", "h", "o", "l", "d", "e", "r",
       "s", " ", "c", "o", "n", "t", "r", "o", "l", " ", "{", "}", "%", " ", "-", " ",
       "w", "a", "t", "c", "h", " ", "f", "o", "r", " ", "c", "o", "o", "r", "d", "i",
       "n", "a", "t", "e", "d", " ", "d", "u", "m", "p", "s">>,
   \* "<lock> Low max tx/wallet limits may cause slippage on larger trades"
   LowLimits |->
     <<"<lock>", " ", "L", "o", "w", " ", "m", "a", "x", " ", "t", "x", "/", "w", "a",
       "l", "l", "e", "t", " ", "l", "i", "m", "i", "t", "s", " ", "m", "a", "y", " ",
       "c", "a", "u", "s", "e", " ", "s", "l", "i", "p", "p", "a", "g", "e", " ", "o",
       "n", " ", "l", "a", "r", "g", "e", "r", " ", "t", "r", "a", "d", "e", "s">>,
   \* "<up> Suitable for swing trading - set stop losses at 15-20%"
   Swing |->
     <<"<up>", " ", "S", "u", "i", "t", "a", "b", "l", "e", " ", "f", "o", "r", " ",
       "s", "w", "i", "n", "g", " ", "t", "r", "a", "d", "i", "n", "g", " ", "-", " ",
       "s", "e", "t", " ", "s", "t", "o", "p", " ", "l", "o", "s", "s", "e", "s", " ",
       "a", "t", " ", "1", "5", "-", "2", "0", "%">>,
   \* "<scales> Medium risk - use tight stop losses (10%) and small position sizes"
   Medium |->
     <<"<scales>", " ", "M", "e", "d", "i", "u", "m", " ", "r", "i", "s", "k", " ", "-",
       " ", "u", "s", "e", " ", "t", "i", "g", "h", "t", " ", "s", "t", "o", "p", " ",
       "l", "o", "s", "s", "e", "s", " ", "(", "1", "0", "%", ")", " ", "a", "n", "d",
       " ", "s", "m", "a", "l", "l", " ", "p", "o", "s", "i", "t", "i", "o", "n", " ",
       "s", "i", "z", "e", "s">>,
   \* "<siren> High risk - only for experienced traders with strict risk management"
   High |->
     <<"<siren>", " ", "H", "i", "g", "h", " ", "r", "i", "s", "k", " ", "-", " ", "o",
       "n", "l", "y", " ", "f", "o", "r", " ", "e", "x", "p", "e", "r", "i", "e", "n",
       "c", "e", "d", " ", "t", "r", "a", "d", "e", "r", "s", " ", "w", "i", "t", "h",
       " ", "s", "t", "r", "i", "c", "t", " ", "r", "i", "s", "k", " ", "m", "a", "n",
       "a", "g", "e", "m", "e", "n", "t">>,
   \* "<bars> Strong community interest: {} unique buyers in 24h"
   Buyers |->
     <<"<bars>", " ", "S", "t", "r", "o", "n", "g", " ", "c", "o", "m", "m", "u", "n",
       "i", "t", "y", " ", "i", "n", "t", "e", "r", "e", "s", "t", ":", " ", "{", "}",
       " ", "u", "n", "i", "q", "u", "e", " ", "b", "u", "y", "e", "r", "s", " ", "i",
       "n", " ", "2", "4", "h">>,
   \* "<fire> High volume: {} transactions in 24h"
   HighVolume |->
     <<"<fire>", " ", "H", "i", "g", "h", " ", "v", "o", "l", "u", "m", "e", ":", " ",
       "{", "}", " ", "t", "r", "a", "n", "s", "a", "c", "t", "i", "o", "n", "s", " ",
       "i", "n", " ", "2", "4", "h">>]

\* generateTraderInsights: the lines in the order the code pushes them, each
\* with the values the code formats into it (toFixed(1) of a percent, the
\* locale date of the unlock time).  The code joins the lines with "\n"; the
\* recommendation is always pushed, so the list is never empty.
generateTraderInsights(v, analysis, riskPercentage) ==
  LET js == v = "analyzer_js"
      liq == analysis.liquidity
      tx == analysis.taxes
      ha == analysis.holderAnalysis
      act == analysis.activity
      Line(text, values) == [text |-> text, values |-> values]
      If(cond, line) == IF cond THEN <<line>> ELSE <<>>
  IN (IF js THEN <<>>
      ELSE IF liq.lpRiskLevel = "CRITICAL"
      THEN <<Line(I.CriticalLp, <<>>), Line(I.OnlyTrade, <<>>)>>
      ELSE IF liq.lpRiskLevel = "HIGH"
      THEN <<Line(I.HighLp, <<>>), Line(I.ExtremeCaution, <<>>)>>
      ELSE <<>>)
     \o If(\/ analysis.ownership.renounceable
           \/ v = "part_006" /\ analysis.ownership.owner = "RENOUNCED",
           Line(I.Renounced, <<>>))
     \o (IF ~js /\ liq.lpLocked /\ liq.lockedPercent >= 5100
         THEN <<Line(I.LpLocked, <<liq.lockedPercent, liq.unlockTime>>)>>
         ELSE If(liq.lpPercentBurned >= 5100, Line(I.LpBurned, <<>>)))
     \o If(ha.healthyDistribution, Line(I.Healthy, <<>>))
     \o If(tx.buyTax <= 5 /\ tx.sellTax <= 5, Line(I.LowTaxes, <<>>))
     \o If(analysis.simulation.honeypotRisk = I.NoHoneypotVerdict,
           Line(I.NoHoneypot, <<>>))
     \o If(~js /\ analysis.security.securityScore >= 8, Line(I.SecurityHigh, <<>>))
     \o If(tx.buyTax > 10 \/ tx.sellTax > 10, Line(I.HighTaxes, <<>>))
     \o If(FracLess(Frac(40, 1), ha.top10Concentration),
           Line(I.Whales, <<ha.top10Concentration>>))
     \o If(v /= "part_006" /\ ~tx.hasHighLimits, Line(I.LowLimits, <<>>))
     \o (IF js
         THEN IF riskPercentage < 35 THEN <<Line(I.Swing, <<>>)>>
              ELSE IF riskPercentage < 60 THEN <<Line(I.Medium, <<>>)>>
              ELSE <<Line(I.High, <<>>)>>
         ELSE IF riskPercentage < 25 /\ liq.lpRiskLevel = "LOW"
              THEN <<Line(I.Swing, <<>>)>>
              ELSE IF riskPercentage < 40 /\ liq.lpRiskLevel /= "CRITICAL"
              THEN <<Line(I.Medium, <<>>)>>
              ELSE <<Line(I.High, <<>>)>>)
     \o If(act.uniqueBuyers24h > 20, Line(I.Buyers, <<act.uniqueBuyers24h>>))
     \o If(v = "part_007" /\ act.totalTransactions24h > 100,
           Line(I.HighVolume, <<act.totalTransactions24h>>))

\* calculateComprehensiveRisk: the penalties in the order the code adds them,
\* and the factors part_006 / part_007 push with them (analyzer.js pushes none;
\* no iteration pushes a factor for ownership, taxes, limits, the security
\* score, complexity or mint).
\* undefined > 7 is false, so a contractAnalysis without complexityScore adds
\* nothing for complexity; reading suspiciousPatterns.canMint of a
\* contractAnalysis that has no suspiciousPatterns throws a TypeError.
calculateComprehensiveRisk(v, analysis) ==
  LET js == v = "analyzer_js"
      own == analysis.ownership
      tx == analysis.taxes
      ha == analysis.holderAnalysis
      sec == analysis.security
      act == analysis.activity
      ca == analysis.contractAnalysis
      ownershipPenalty ==
        IF own.ownershipRisk = "High" THEN (IF js THEN 15 ELSE 12)
        ELSE IF own.ownershipRisk = "Medium" THEN (IF js THEN 8 ELSE 6)
        ELSE 0
      taxPenalty ==
        IF tx.buyTax > 15 \/ tx.sellTax > 15 THEN (IF js THEN 20 ELSE 16)
        ELSE IF tx.buyTax > 10 \/ tx.sellTax > 10 THEN (IF js THEN 12 ELSE 10)
        ELSE 0
      limitsPenalty == IF ~tx.hasHighLimits THEN (IF js THEN 8 ELSE 6) ELSE 0
      concentrationPenalty ==
        IF FracLess(Frac(60, 1), ha.top10Concentration) THEN 15
        ELSE IF FracLess(Frac(40, 1), ha.top10Concentration) THEN 8
        ELSE 0
      securityPenalty ==
        (IF sec.hasDangerousFeatures THEN 8 ELSE 0)
        + (IF sec.securityScore < 5 THEN 2 ELSE 0)
      activityPenalty ==
        (IF ~act.hasHealthyActivity THEN 3 ELSE 0)
        + (IF includes(act.devActivity, <<"<siren>">>) THEN 2 ELSE 0)
      complexityPenalty ==
        IF "complexityScore" \in DOMAIN ca /\ ca.complexityScore > 7000 THEN 3 ELSE 0
      score ==
        ownershipPenalty + taxPenalty + limitsPenalty
        + LiquidityPenalty(v, analysis.liquidity)
        + concentrationPenalty
        + HoneypotPenalty(v, analysis.simulation.honeypotRisk)
        + securityPenalty + activityPenalty + complexityPenalty
        + (IF ca.suspiciousPatterns.canMint THEN 2 ELSE 0)
      riskPercentage == RoundPercent(score, maxScore(v))
      liq == analysis.liquidity
      risk == analysis.simulation.honeypotRisk
      factors ==
        (IF ~liq.hasLiquidity THEN <<F.NoLiquidity>>
         ELSE IF liq.lpRiskLevel = "CRITICAL"
         THEN <<F.LpUnlocked>>
         ELSE IF liq.lpRiskLevel = "HIGH"
         THEN <<F.LpInsufficient>>
         ELSE IF liq.lpRiskLevel = "MEDIUM"
         THEN <<F.LpPartial>>
         ELSE IF v = "part_006" \/ liq.lpRiskLevel = "LOW"
         THEN <<F.LpStrong>>
         ELSE <<>>)
        \o (IF concentrationPenalty = 15 THEN <<F.WhaleExtreme>>
            ELSE IF concentrationPenalty = 8 THEN <<F.WhaleHigh>>
            ELSE <<>>)
        \o (IF includes(risk, W.HIGH) THEN <<F.HoneypotHigh>>
            ELSE IF includes(risk, W.POTENTIAL) \/ includes(risk, W.MODERATE)
            THEN <<F.HoneypotPotential>>
            ELSE <<>>)
        \o (IF sec.hasDangerousFeatures THEN <<F.Dangerous>>
            ELSE <<>>)
        \o (IF ~act.hasHealthyActivity THEN <<F.LowActivity>> ELSE <<>>)
        \o (IF includes(act.devActivity, <<"<siren>">>)
            THEN <<F.DevActivity>> ELSE <<>>)
  IN IF "suspiciousPatterns" \notin DOMAIN ca
     THEN [threw |-> TRUE, error |-> "TypeError"]
     ELSE [threw |-> FALSE,
           score |-> score,
           riskPercentage |-> riskPercentage,
           level |-> Level(v, riskPercentage, analysis.liquidity),
           factors |-> IF js THEN <<>> ELSE factors,
           insights |-> generateTraderInsights(v, analysis, riskPercentage)]

(***************************************************************************)
(* The chain states analyzeLiquidity is run against.                       *)
(***************************************************************************)
Now == 10

\* what pair() and the factory answer: ownPair, FACTORY_ADDRESS set, and the
\* answer of getPair for each configured base token
PairInputs(n) ==
  {[ownPair |-> o, FACTORY_ADDRESS |-> f, basePairs |-> b] :
     o \in {"throw", ZeroAddress, PairA},
     f \in BOOLEAN,
     b \in UNION {[1..k -> {"throw", ZeroAddress, PairB, PairC}] : k \in 0..n}}

\* the token's own pair() answers
PairInputsOwn ==
  {[ownPair |-> PairA, FACTORY_ADDRESS |-> TRUE, basePairs |-> <<PairB>>]}

\* one lock of the locker: for the pair PairA (expired or not, withdrawn or
\* not, one expiring at this very second), or one lock of another token
LockLists ==
  LET LockSpace ==
        [amount : {20, 40}, unlockTime : {Now - 1, Now + 1}, unlocked : BOOLEAN,
         token : {PairA}]
        \cup {[amount |-> 40, unlockTime |-> Now, unlocked |-> FALSE, token |-> PairA],
              [amount |-> 40, unlockTime |-> Now + 1, unlocked |-> FALSE, token |-> OtherToken]}
  IN UNION {[1..k -> LockSpace] : k \in 0..MaxLocks}

NoLocker ==
  [LOCKER_ADDRESS |-> FALSE, lockerFail |-> FALSE, locks |-> <<>>, events |-> {},
   unreadable |-> {}, supplyRetryFail |-> FALSE]

Locker(l, ev, u, r) ==
  [LOCKER_ADDRESS |-> TRUE, lockerFail |-> FALSE, locks |-> l, events |-> ev,
   unreadable |-> u, supplyRetryFail |-> r]

\* <<LP total supply, LP balance of the burn address>>
BurnCasesFew == {<<100, 0>>, <<100, 25>>, <<100, 51>>, <<200, 101>>}

MkLpEnv(p, b, fa, k) ==
  [ownPair |-> p.ownPair, FACTORY_ADDRESS |-> p.FACTORY_ADDRESS,
   basePairs |-> p.basePairs, lpSupply |-> b[1], deadBalance |-> b[2],
   failAt |-> fa, LOCKER_ADDRESS |-> k.LOCKER_ADDRESS, lockerFail |-> k.lockerFail,
   locks |-> k.locks, events |-> k.events, unreadable |-> k.unreadable,
   supplyRetryFail |-> k.supplyRetryFail, now |-> Now, lpAgeDraw |-> 0]

(***************************************************************************)
(* What the explorer and the chain answer to the other fetchers.           *)
(***************************************************************************)
\* the explorer's token record and the four ERC-20 getters; wholeSupply says
\* whether the supply is a whole number of tokens below 2^53
TokenEnv(explorer, calls, supply, whole) ==
  [explorerOk |-> explorer, explorerSupply |-> supply, explorerHolders |-> 25,
   explorerVerified |-> FALSE, nameOk |-> calls, symbolOk |-> calls,
   decimalsOk |-> calls, supplyOk |-> calls, chainSupply |-> 1000,
   wholeSupply |-> whole]

TokenEnvs(v) ==
  IF v = "analyzer_js"
  THEN {TokenEnv(FALSE, TRUE, 0, TRUE), TokenEnv(FALSE, TRUE, 0, FALSE),
        TokenEnv(FALSE, FALSE, 0, TRUE),
        [TokenEnv(FALSE, TRUE, 0, TRUE) EXCEPT !.nameOk = FALSE]}
  ELSE {TokenEnv(TRUE, TRUE, 1000, TRUE), TokenEnv(TRUE, TRUE, 0, TRUE),
        TokenEnv(FALSE, TRUE, 0, TRUE), TokenEnv(FALSE, FALSE, 0, TRUE),
        [TokenEnv(TRUE, TRUE, 1000, TRUE) EXCEPT !.explorerVerified = TRUE]}

Code(length, mint) ==
  [kind |-> "code", length |-> length, canMint |-> mint, canBurn |-> FALSE,
   hasBlacklist |-> FALSE, hasFreeze |-> FALSE, hasReflection |-> FALSE]

\* provider.getCode: bytecode (its length, whether it contains a mint function),
\* "0x", or a failed request
CodesFew == {Code(5000, FALSE), Code(8000, TRUE), [Code(0, FALSE) EXCEPT !.kind = "0x"], [Code(0, FALSE) EXCEPT !.kind = "throw"]}

\* an item of the explorer's holder list; the explorer knows the token to be a
\* contract
Holder(address, value) ==
  [address |-> address, value |-> value, is_contract |-> address = TokenAddr]

\* the explorer's holder list: balances out of a supply of 1000
HolderEnvs ==
  {[holdersOk |-> TRUE, items |-> <<Holder("0xA", 300), Holder(DeadAddress, 200)>>],
   [holdersOk |-> TRUE, items |-> <<Holder("0xA", 300), Holder("0xB", 200)>>],
   [holdersOk |-> TRUE, items |-> <<Holder("0xA", 700), Holder(TokenAddr, 100)>>],
   [holdersOk |-> FALSE, items |-> <<>>]}

OwnershipEnvs ==
  [owner : {"throw", ZeroAddress, TokenAddr, "0xOWNER"}, canTransfer : BOOLEAN,
   canRenounce : {TRUE}]

TaxEnv(buy, sell, maxTx, maxWallet) ==
  [buyFees |-> buy, sellFees |-> sell, maxTx |-> maxTx, maxWallet |-> maxWallet,
   chainSupply |-> 1000, supplyOk |-> TRUE, failed |-> FALSE]

\* no getter answers
TaxEnvFailed == [TaxEnv(0, 0, 0, 0) EXCEPT !.supplyOk = FALSE, !.failed = TRUE]

TaxEnvsFew == {TaxEnv(20, 5, 0, 0), TaxEnvFailed}

ActivityEnvs ==
  [devSuspicious : BOOLEAN, metricsOk : BOOLEAN, uniqueBuyers : {3, 30},
   totalTransactions : {50}]

SecurityEnv(codeOk, blacklisted, mintable, pauseable) ==
  [codeOk |-> codeOk, blacklisted |-> blacklisted, mintable |-> mintable,
   pauseable |-> pauseable, canRenounce |-> TRUE]

SecurityEnvs ==
  {SecurityEnv(TRUE, FALSE, FALSE, FALSE), SecurityEnv(TRUE, FALSE, FALSE, TRUE),
   SecurityEnv(TRUE, TRUE, TRUE, FALSE), SecurityEnv(FALSE, FALSE, FALSE, FALSE)}

\* the explicit chain states of analyzeLiquidity: no pair found, a failed LP
\* call, and the burn cases against the locker states
LpEnvsOf(v, pairs, burns, failBurns, fails, lockers) ==
  {MkLpEnv(p, <<0, 0>>, "none", NoLocker) :
     p \in {q \in pairs : ~IsPair(findLiquidityPair(v, q))}}
  \cup {MkLpEnv(p, b, fa, k) :
     p \in {q \in pairs : IsPair(findLiquidityPair(v, q))},
     b \in failBurns, fa \in fails, k \in {NoLocker, Locker(<<>>, {}, {}, FALSE)}}
  \cup {MkLpEnv(p, b, "none", k) :
     p \in {q \in pairs : IsPair(findLiquidityPair(v, q))},
     b \in burns, k \in lockers}

LpEnvs(v) ==
  LpEnvsOf(v, PairInputs(MaxBase),
           {<<0, 0>>, <<100, 0>>, <<100, 24>>, <<100, 25>>, <<100, 50>>, <<100, 51>>,
            <<100, 100>>, <<200, 101>>},
           {<<100, 0>>, <<100, 80>>},
           {"totalSupply", "balanceOf", "token0", "token1"}
           \cup (IF v = "part_007" THEN {"getBlockNumber"} ELSE {}),
           {NoLocker, [NoLocker EXCEPT !.LOCKER_ADDRESS = TRUE, !.lockerFail = TRUE]}
           \cup {Locker(<<[amount |-> 40, unlockTime |-> t, unlocked |-> FALSE,
                           token |-> PairA]>>,
                        IF v = "part_006" THEN {1} ELSE {}, {}, FALSE) :
                   t \in {Now - 1, Now + 1}})

OneLock(amount) ==
  <<[amount |-> amount, unlockTime |-> Now + 1, unlocked |-> FALSE, token |-> PairA]>>

LpEnvsFew(v) ==
  LpEnvsOf(v,
           PairInputsOwn
           \cup {[ownPair |-> ZeroAddress, FACTORY_ADDRESS |-> TRUE,
                  basePairs |-> <<ZeroAddress>>]},
           {<<100, 0>>, <<100, 60>>}, {<<100, 80>>},
           {"token0"}, {NoLocker})
  \cup {MkLpEnv(p, <<100, 0>>, "none",
                Locker(OneLock(20), IF v = "part_006" THEN {1} ELSE {}, {}, FALSE)) :
          p \in PairInputsOwn}

Passed == [ok |-> TRUE, reason |-> <<>>]

Reverted(reason) == [ok |-> FALSE, reason |-> reason]

Outcomes ==
  {Passed}
  \cup {Reverted(r) :
          r \in {Rv.ExceedsBalance, Rv.InsufficientAllowance, Rv.InsufficientBalance,
                 Rv.Expired, Rv.InsufficientLiquidity, Rv.TradingDisabled,
                 Rv.ExecutionReverted, Rv.PancakeK, Rv.Long, <<>>}}

SimEnv(router, transfer0ok, transfer, approve, buy, sell) ==
  [ROUTER_ADDRESS |-> router, transfer0ok |-> transfer0ok, transfer |-> transfer,
   approve |-> approve, buy |-> buy, sell |-> sell]

\* the outcomes of the dry runs each iteration makes: analyzer.js a transfer
\* and two router swaps, the later iterations two transfers and an approve
SimEnvs(v) ==
  IF v = "analyzer_js"
  THEN {SimEnv(r, TRUE, t, Passed, b, s) :
          r \in BOOLEAN, t \in Outcomes, b \in Outcomes, s \in Outcomes}
  ELSE {SimEnv(r, z, t, a, Passed, Passed) :
          r \in BOOLEAN, z \in BOOLEAN, t \in Outcomes, a \in Outcomes}

SimEnvsFew(v) ==
  IF v = "analyzer_js"
  THEN {SimEnv(TRUE, TRUE, Passed, Passed, Passed, Passed),
        SimEnv(TRUE, TRUE, Passed, Passed, Passed, Reverted(Rv.TradingDisabled)),
        SimEnv(FALSE, TRUE, Passed, Passed, Passed, Passed)}
  ELSE {SimEnv(TRUE, TRUE, Passed, Passed, Passed, Passed),
        SimEnv(TRUE, TRUE, Passed, Reverted(Rv.TradingDisabled), Passed, Passed),
        SimEnv(FALSE, TRUE, Passed, Passed, Passed, Passed)}

SimulationFailed(v, liq, e) ==
  \/ ~e.transfer.ok /\ (v = "analyzer_js" \/ ~e.transfer0ok)
  \/ CanSwap(liq, e) /\ v = "analyzer_js" /\ (~e.buy.ok \/ ~e.sell.ok)
  \/ CanSwap(liq, e) /\ v /= "analyzer_js" /\ ~e.approve.ok

(***************************************************************************)
(* analyzeToken, one await at a time.  getContractCreationTime and         *)
(* getPairCreationInfo catch every error and only supply the ages the      *)
(* report prints, so they are no step of their own.                        *)
(***************************************************************************)
Pending == [pending |-> TRUE]

\* const tokenInfo = await getTokenInfo(...) / fetchTokenInfoFromBlockscout(...)
FetchTokenInfo(envs) ==
  /\ pc = "tokenInfo"
  /\ \E e \in envs :
       LET own == ver = "analyzer_js" \/ ~e.explorerOk
       IN /\ tokenInfo' = ResolveTokenInfo(ver, e)
          /\ failedCalls' = failedCalls
               \cup (IF ver /= "analyzer_js" /\ ~e.explorerOk THEN {"explorer"} ELSE {})
               \cup (IF own /\ ~e.nameOk THEN {"name"} ELSE {})
               \cup (IF own /\ ~e.symbolOk THEN {"symbol"} ELSE {})
               \cup (IF own /\ ~e.decimalsOk THEN {"decimals"} ELSE {})
               \cup (IF (own \/ e.explorerSupply = 0) /\ ~e.supplyOk
                     THEN {"totalSupply"} ELSE {})
  /\ pc' = "contract"
  /\ UNCHANGED <<ver, bot, holderEnv, contractAnalysis, verified, holderAnalysis, ownership, taxes,
                 lpEnv, liquidity, simEnv, simulation, activity, security,
                 riskAssessment, previous, result>>

\* const contractAnalysis = await analyzeContractFeatures(tokenAddress)
AnalyzeContractFeatures(codes) ==
  /\ pc = "contract"
  /\ \E code \in codes :
       /\ contractAnalysis' = analyzeContractFeatures(code)
       /\ failedCalls' = failedCalls \cup (IF code.kind = "throw" THEN {"getCode"} ELSE {})
  /\ pc' = "verified"
  /\ UNCHANGED <<ver, bot, holderEnv, tokenInfo, verified, holderAnalysis, ownership, taxes, lpEnv,
                 liquidity, simEnv, simulation, activity, security, riskAssessment,
                 previous, result>>

\* const verified = [tokenInfo.verified ||] await checkContractVerified(...)
CheckContractVerified ==
  /\ pc = "verified"
  /\ IF ver /= "analyzer_js" /\ tokenInfo.verified
     THEN verified' = TRUE /\ UNCHANGED failedCalls
     ELSE \E answer \in {"verified", "unverified", "throw"} :
            /\ verified' = (answer = "verified")
            /\ failedCalls' = failedCalls \cup (IF answer = "throw" THEN {"verified"} ELSE {})
  /\ pc' = "holders"
  /\ UNCHANGED <<ver, bot, holderEnv, tokenInfo, contractAnalysis, holderAnalysis, ownership, taxes,
                 lpEnv, liquidity, simEnv, simulation, activity, security,
                 riskAssessment, previous, result>>

\* const holderAnalysis = await analyzeHolderDistribution(tokenAddress, tokenInfo)
AnalyzeHolderDistribution(envs) ==
  /\ pc = "holders"
  /\ \E e \in envs :
       /\ holderEnv' = e
       /\ holderAnalysis' = analyzeHolderDistribution(ver, e, tokenInfo)
       /\ failedCalls' = failedCalls \cup (IF e.holdersOk THEN {} ELSE {"holders"})
  /\ pc' = "ownership"
  /\ UNCHANGED <<ver, bot, tokenInfo, contractAnalysis, verified, ownership, taxes, lpEnv,
                 liquidity, simEnv, simulation, activity, security, riskAssessment,
                 previous, result>>

\* const ownership = await analyzeOwnership(tokenContract, tokenAddress)
AnalyzeOwnership(envs) ==
  /\ pc = "ownership"
  /\ \E e \in envs :
       /\ ownership' = analyzeOwnership(ver, e)
       /\ failedCalls' = failedCalls \cup (IF e.owner = "throw" THEN {"ownership"} ELSE {})
  /\ pc' = "taxes"
  /\ UNCHANGED <<ver, bot, holderEnv, tokenInfo, contractAnalysis, verified, holderAnalysis, taxes,
                 lpEnv, liquidity, simEnv, simulation, activity, security,
                 riskAssessment, previous, result>>

\* const taxes = await analyzeTaxes(tokenContract[, tokenInfo.totalSupply])
AnalyzeTaxes(envs) ==
  /\ pc = "taxes"
  /\ \E e \in envs :
       /\ taxes' = analyzeTaxes(ver, e, tokenInfo.totalSupply)
       /\ failedCalls' = failedCalls \cup (IF e.failed THEN {"taxes"} ELSE {})
  /\ pc' = "liquidity"
  /\ UNCHANGED <<ver, bot, holderEnv, tokenInfo, contractAnalysis, verified, holderAnalysis, ownership,
                 lpEnv, liquidity, simEnv, simulation, activity, security,
                 riskAssessment, previous, result>>

\* the least and the greatest value Math.floor(Math.random() * 7) draws in
\* analyzer.js; the other iterations draw nothing
LpAgeDraws(v) == IF v = "analyzer_js" THEN {0, 6} ELSE {0}

SetLiquidity(e) ==
  /\ \E d \in LpAgeDraws(ver) :
       /\ lpEnv' = [e EXCEPT !.lpAgeDraw = d]
       /\ liquidity' = analyzeLiquidity(ver, lpEnv')
  /\ failedCalls' = failedCalls \cup
       (IF \/ e.ownPair = "throw"
           \/ \E i \in 1..Len(e.basePairs) : e.basePairs[i] = "throw"
           \/ e.failAt /= "none"
           \/ e.lockerFail
           \/ e.supplyRetryFail
           \/ e.unreadable /= {}
        THEN {"liquidity"} ELSE {})

\* const liquidity = await analyzeLiquidity(tokenAddress, tokenInfo, ...)
\* against the chain states envs and, when allLocks, against the token's own
\* pair with every state of the locker
AnalyzeLiquidity(envs, allLocks) ==
  /\ pc = "liquidity"
  /\ \/ \E e \in envs : SetLiquidity(e)
     \/ /\ allLocks
        /\ \E p \in PairInputsOwn, b \in BurnCasesFew, l \in LockLists,
              ev \in (IF ver = "part_006" THEN SUBSET (1..MaxLocks) ELSE {{}}),
              r \in (IF ver = "analyzer_js" THEN BOOLEAN ELSE {FALSE}) :
             \E u \in SUBSET ev :
               SetLiquidity(MkLpEnv(p, b, "none", Locker(l, ev, u, r)))
  /\ pc' = "simulate"
  /\ UNCHANGED <<ver, bot, holderEnv, tokenInfo, contractAnalysis, verified, holderAnalysis, ownership,
                 taxes, simEnv, simulation, activity, security, riskAssessment,
                 previous, result>>

\* const simulation = await simulateTrading(tokenAddress, tokenInfo, liquidity)
SimulateTrading(envs) ==
  /\ pc = "simulate"
  /\ \E e \in envs :
       /\ simEnv' = e
       /\ simulation' = simulateTrading(ver, liquidity, e)
       /\ failedCalls' = failedCalls
            \cup (IF SimulationFailed(ver, liquidity, e) THEN {"simulation"} ELSE {})
  /\ pc' = "activity"
  /\ UNCHANGED <<ver, bot, holderEnv, tokenInfo, contractAnalysis, verified, holderAnalysis, ownership,
                 taxes, lpEnv, liquidity, activity, security, riskAssessment, previous,
                 result>>

\* const activity = await analyzeTradingActivity(tokenContract, ownership.owner, ...)
AnalyzeTradingActivity(envs) ==
  /\ pc = "activity"
  /\ \E e \in envs :
       /\ activity' = analyzeTradingActivity(ver, e, ownership.owner)
       /\ failedCalls' = failedCalls \cup (IF e.metricsOk THEN {} ELSE {"activity"})
  /\ pc' = "security"
  /\ UNCHANGED <<ver, bot, holderEnv, tokenInfo, contractAnalysis, verified, holderAnalysis, ownership,
                 taxes, lpEnv, liquidity, simEnv, simulation, security, riskAssessment,
                 previous, result>>

\* const security = await analyzeSecurityFeatures(tokenAddress)
AnalyzeSecurityFeatures(envs) ==
  /\ pc = "security"
  /\ \E e \in envs :
       /\ security' = analyzeSecurityFeatures(e)
       /\ failedCalls' = failedCalls \cup (IF e.codeOk THEN {} ELSE {"security"})
  /\ pc' = "risk"
  /\ UNCHANGED <<ver, bot, holderEnv, tokenInfo, contractAnalysis, verified, holderAnalysis, ownership,
                 taxes, lpEnv, liquidity, simEnv, simulation, activity, riskAssessment,
                 previous, result>>

\* the object analyzeToken hands to calculateComprehensiveRisk
Analysis ==
  [taxes |-> taxes, liquidity |-> liquidity, holderAnalysis |-> holderAnalysis,
   ownership |-> ownership, simulation |-> simulation, activity |-> activity,
   security |-> security, contractAnalysis |-> contractAnalysis]

\* analyzer.js formatAnalysisReport calls ethers.formatEther on the supply that
\* holders.js made a Number: a fraction or a value beyond 2^53 throws
\* const riskAssessment = calculateComprehensiveRisk({...});
\* return formatAnalysisReport({...}) -- or the catch block's error text
CalculateRiskAndReport ==
  /\ pc = "risk"
  /\ riskAssessment' = calculateComprehensiveRisk(ver, Analysis)
  /\ result' = IF riskAssessment'.threw \/ (ver = "analyzer_js" /\ tokenInfo.totalSupply /= 0
                                           /\ ~tokenInfo.supplyIsSafeInteger)
               THEN "error" ELSE "report"
  /\ pc' = "done"
  /\ UNCHANGED <<ver, bot, holderEnv, failedCalls, tokenInfo, contractAnalysis, verified, holderAnalysis,
                 ownership, taxes, lpEnv, liquidity, simEnv, simulation, activity,
                 security, previous>>

(***************************************************************************)
(* The chat front end before any message arrived.                          *)
(***************************************************************************)
Requests == 1..MaxRequests

\* msg.chat.id of the chats that write to the bot
Chats == {"chatA", "chatB"}

\* no message yet, globalLimiter idle, userLimiters an empty Map
BotIdle ==
  [stage        |-> [r \in Requests |-> "unsent"],
   chatId       |-> [r \in Requests |-> "chatA"],
   isAddress    |-> [r \in Requests |-> FALSE],
   err          |-> [r \in Requests |-> "none"],
   calls        |-> [r \in Requests |-> 0],
   sent         |-> [r \in Requests |-> <<>>],
   globalQueue  |-> <<>>,
   running      |-> 0,
   minTimeWait  |-> FALSE,
   userLimiters |-> [c \in Chats |-> [created |-> FALSE, reservoir |-> 0, queue |-> <<>>]]]

Untouched ==
  /\ failedCalls = {}
  /\ tokenInfo = Pending
  /\ contractAnalysis = Pending
  /\ verified = FALSE
  /\ holderAnalysis = Pending
  /\ ownership = Pending
  /\ taxes = Pending
  /\ lpEnv = Pending
  /\ liquidity = Pending
  /\ simEnv = Pending
  /\ simulation = Pending
  /\ activity = Pending
  /\ security = Pending
  /\ riskAssessment = Pending
  /\ previous = Pending
  /\ holderEnv = Pending
  /\ bot = BotIdle
  /\ result = "none"

(***************************************************************************)
(* One run of analyzeToken.                                                *)
(***************************************************************************)
Init ==
  /\ ver \in Versions
  /\ pc = "tokenInfo"
  /\ Untouched

Next ==
  \/ FetchTokenInfo(TokenEnvs(ver))
  \/ AnalyzeContractFeatures(CodesFew)
  \/ CheckContractVerified
  \/ AnalyzeHolderDistribution({e \in HolderEnvs : ~e.holdersOk \/ e.items[1].value = 700})
  \/ AnalyzeOwnership({e \in OwnershipEnvs : /\ e.owner \in {"throw", "0xOWNER"}
                                              /\ e.canTransfer <=> e.owner = "0xOWNER"})
  \/ AnalyzeTaxes(TaxEnvsFew)
  \/ AnalyzeLiquidity(LpEnvsFew(ver), FALSE)
  \/ SimulateTrading(SimEnvsFew(ver))
  \/ AnalyzeTradingActivity({e \in ActivityEnvs : e.uniqueBuyers = 30 /\ ~e.devSuspicious})
  \/ AnalyzeSecurityFeatures({e \in SecurityEnvs : ~e.blacklisted /\ ~e.pauseable})
  \/ CalculateRiskAndReport

Spec == Init /\ [][Next]_vars

(***************************************************************************)
(* analyzeLiquidity alone, against every chain state above.                *)
(***************************************************************************)
InitLiq ==
  /\ ver \in Versions
  /\ pc = "liquidity"
  /\ Untouched

SpecLiq == InitLiq /\ [][AnalyzeLiquidity(LpEnvs(ver), TRUE)]_vars

(***************************************************************************)
(* simulateTrading alone, against every outcome of its dry runs, for a     *)
(* token with and without a liquidity pair.                                *)
(***************************************************************************)
InitSim ==
  /\ ver \in Versions
  /\ pc = "simulate"
  /\ failedCalls = {}
  /\ tokenInfo = Pending
  /\ contractAnalysis = Pending
  /\ verified = FALSE
  /\ holderAnalysis = Pending
  /\ ownership = Pending
  /\ taxes = Pending
  /\ lpEnv \in LpEnvsFew(ver)
  /\ liquidity = analyzeLiquidity(ver, lpEnv)
  /\ simEnv = Pending
  /\ simulation = Pending
  /\ activity = Pending
  /\ security = Pending
  /\ riskAssessment = Pending
  /\ previous = Pending
  /\ holderEnv = Pending
  /\ bot = BotIdle
  /\ result = "none"

SpecSim == InitSim /\ [][SimulateTrading(SimEnvs(ver))]_vars

(***************************************************************************)
(* assessHoneypotRisk alone, over the probe messages any iteration of      *)
(* simulateTrading writes.                                                 *)
(***************************************************************************)
\* a token whose own pair exists, so that the swap probes run
ProbeResults ==
  LET PairedLiquidity(v) ==
        analyzeLiquidity(v, CHOOSE e \in LpEnvsFew(v) :
                              /\ IsPair(findLiquidityPair(v, e))
                              /\ e.failAt = "none"
                              /\ e.deadBalance = 60 /\ ~e.LOCKER_ADDRESS)
  IN UNION {{simulateTrading(v, PairedLiquidity(v), e).simulations : e \in SimEnvs(v)} :
              v \in Versions}

Messages(probe) == {s[probe] : s \in ProbeResults}

\* return assessHoneypotRisk(simulations)
AssessHoneypotRisk ==
  /\ pc = "assess"
  /\ simulation' = [simulation EXCEPT
                      !.honeypotRisk = assessHoneypotRisk(ver, simulation.simulations)]
  /\ pc' = "assessed"
  /\ UNCHANGED <<ver, bot, holderEnv, failedCalls, tokenInfo, contractAnalysis, verified,
                 holderAnalysis, ownership, taxes, lpEnv, liquidity, simEnv, activity,
                 security, riskAssessment, previous, result>>

InitHoney ==
  /\ ver \in Versions
  /\ pc = "assess"
  /\ failedCalls = {}
  /\ tokenInfo = Pending
  /\ contractAnalysis = Pending
  /\ verified = FALSE
  /\ holderAnalysis = Pending
  /\ ownership = Pending
  /\ taxes = Pending
  /\ lpEnv = Pending
  /\ liquidity = Pending
  /\ simEnv = Pending
  /\ simulation \in [simulations : [transfer : Messages("transfer"), buy : Messages("buy"),
                                              sell : Messages("sell")],
                               honeypotRisk : {<<>>}]
  /\ activity = Pending
  /\ security = Pending
  /\ riskAssessment = Pending
  /\ previous = Pending
  /\ holderEnv = Pending
  /\ bot = BotIdle
  /\ result = "none"

SpecHoney == InitHoney /\ [][AssessHoneypotRisk]_vars

(***************************************************************************)
(* calculateComprehensiveRisk alone: it scores an input, then one          *)
(* condition of the input is made more severe and it scores again.         *)
(***************************************************************************)
\* the inputs of calculateComprehensiveRisk, for each iteration and field: what
\* each fetcher returns for a few answers of the chain
RiskInputs ==
  [v \in Versions |->
     [contractAnalysis |->
        {analyzeContractFeatures(c) :
           c \in {Code(5000, FALSE), Code(8000, FALSE), Code(8000, TRUE), [Code(0, FALSE) EXCEPT !.kind = "0x"]}},
      holderAnalysis |->
        {analyzeHolderDistribution(v, e,
                                   ResolveTokenInfo(v, TokenEnv(FALSE, TRUE, 0, TRUE))) :
           e \in {h \in HolderEnvs : h.holdersOk}},
      ownership |->
        {analyzeOwnership(v, [owner |-> "0xOWNER", canTransfer |-> TRUE,
                              canRenounce |-> TRUE])},
      taxes |->
        {analyzeTaxes(v, e, 1000) :
           e \in {TaxEnv(5, 5, 0, 0), TaxEnv(12, 5, 0, 0), TaxEnv(5, 20, 0, 0),
                  TaxEnv(5, 20, 5, 10)}},
      liquidity |->
        {analyzeLiquidity(v, e) :
           e \in {f \in LpEnvsFew(v) : f.failAt = "none"}
                 \cup {MkLpEnv(p, <<100, 30>>, "none", NoLocker) : p \in PairInputsOwn}},
      simulation |->
        [honeypotRisk :
           IF v = "analyzer_js"
           THEN {Js.HighHoneypot, Js.PotentialHoneypot, Js.ModerateHoneypot, Js.NoHoneypot}
           ELSE {P.HighHoneypot, P.PotentialHoneypot, P.ModerateConcerns, P.NoHoneypot,
                 P.Unclear}],
      activity |->
        {analyzeTradingActivity(v, e, "0xOWNER") :
           e \in {a \in ActivityEnvs : a.metricsOk}},
      security |->
        {analyzeSecurityFeatures(e) :
           e \in {x \in SecurityEnvs : x.codeOk}}]]

\* the severity of each condition calculateComprehensiveRisk scores in steps
TaxBand(tx) ==
  IF tx.buyTax > 15 \/ tx.sellTax > 15 THEN 2
  ELSE IF tx.buyTax > 10 \/ tx.sellTax > 10 THEN 1
  ELSE 0

LiquiditySeverity(v, liq) ==
  IF ~liq.hasLiquidity THEN 4
  ELSE IF v = "analyzer_js"
  THEN IF liq.lpPercentBurned < 2500 THEN 2
       ELSE IF liq.lpPercentBurned < 5100 THEN 1
       ELSE 0
  ELSE IF liq.lpRiskLevel = "CRITICAL" THEN 3
       ELSE IF liq.lpRiskLevel = "HIGH" THEN 2
       ELSE IF liq.lpRiskLevel = "MEDIUM" THEN 1
       ELSE 0

ConcentrationBand(ha) ==
  IF FracLess(Frac(60, 1), ha.top10Concentration) THEN 2
  ELSE IF FracLess(Frac(40, 1), ha.top10Concentration) THEN 1
  ELSE 0

HoneypotClass(honeypotRisk) ==
  IF honeypotRisk \in {Js.HighHoneypot, P.HighHoneypot} THEN 2
  ELSE IF honeypotRisk \in {Js.PotentialHoneypot, P.PotentialHoneypot,
                            Js.ModerateHoneypot, P.ModerateConcerns} THEN 1
  ELSE 0

\* calculateComprehensiveRisk is called again, on the changed input
Reassess(analysis) ==
  /\ pc = "done"
  /\ previous' = riskAssessment
  /\ riskAssessment' = calculateComprehensiveRisk(ver, analysis)
  /\ pc' = "worsened"

\* one condition of the input gets worse, the others stay, and the input is
\* assessed again
Worsen ==
  \/ \* a higher tax band, the limits unchanged
     /\ \E t \in RiskInputs[ver].taxes :
          /\ TaxBand(t) > TaxBand(taxes)
          /\ t.hasHighLimits = taxes.hasHighLimits
          /\ taxes' = t
          /\ Reassess([Analysis EXCEPT !.taxes = t])
     /\ UNCHANGED <<ver, bot, holderEnv, failedCalls, tokenInfo, contractAnalysis, verified,
                    holderAnalysis, ownership, lpEnv, liquidity, simEnv, simulation,
                    activity, security, result>>
  \/ \* a worse liquidity tier (analyzer.js: a lower burn band)
     /\ \E l \in RiskInputs[ver].liquidity :
          /\ LiquiditySeverity(ver, l) > LiquiditySeverity(ver, liquidity)
          /\ liquidity' = l
          /\ Reassess([Analysis EXCEPT !.liquidity = l])
     /\ UNCHANGED <<ver, bot, holderEnv, failedCalls, tokenInfo, contractAnalysis, verified,
                    holderAnalysis, ownership, taxes, lpEnv, simEnv, simulation, activity,
                    security, result>>
  \/ \* a higher top-10 concentration band
     /\ \E h \in RiskInputs[ver].holderAnalysis :
          /\ ConcentrationBand(h) > ConcentrationBand(holderAnalysis)
          /\ holderAnalysis' = h
          /\ Reassess([Analysis EXCEPT !.holderAnalysis = h])
     /\ UNCHANGED <<ver, bot, holderEnv, failedCalls, tokenInfo, contractAnalysis, verified, ownership,
                    taxes, lpEnv, liquidity, simEnv, simulation, activity, security,
                    result>>
  \/ \* a worse honeypot verdict
     /\ \E s \in RiskInputs[ver].simulation :
          /\ HoneypotClass(s.honeypotRisk) > HoneypotClass(simulation.honeypotRisk)
          /\ simulation' = s
          /\ Reassess([Analysis EXCEPT !.simulation = s])
     /\ UNCHANGED <<ver, bot, holderEnv, failedCalls, tokenInfo, contractAnalysis, verified,
                    holderAnalysis, ownership, taxes, lpEnv, liquidity, simEnv, activity,
                    security, result>>
  \/ \* dangerous features appear, the security score staying on its side of 5
     /\ \E s \in RiskInputs[ver].security :
          /\ s.hasDangerousFeatures /\ ~security.hasDangerousFeatures
          /\ (s.securityScore < 5) = (security.securityScore < 5)
          /\ security' = s
          /\ Reassess([Analysis EXCEPT !.security = s])
     /\ UNCHANGED <<ver, bot, holderEnv, failedCalls, tokenInfo, contractAnalysis, verified,
                    holderAnalysis, ownership, taxes, lpEnv, liquidity, simEnv,
                    simulation, activity, result>>
  \/ \* the trading activity stops being healthy
     /\ \E a \in RiskInputs[ver].activity :
          /\ activity.hasHealthyActivity /\ ~a.hasHealthyActivity
          /\ a.devActivity = activity.devActivity
          /\ activity' = a
          /\ Reassess([Analysis EXCEPT !.activity = a])
     /\ UNCHANGED <<ver, bot, holderEnv, failedCalls, tokenInfo, contractAnalysis, verified,
                    holderAnalysis, ownership, taxes, lpEnv, liquidity, simEnv,
                    simulation, security, result>>
  \/ \* the dev wallet becomes suspicious
     /\ \E a \in RiskInputs[ver].activity :
          /\ a.devActivity = Dev.Suspicious /\ activity.devActivity = Dev.Quiet
          /\ a.hasHealthyActivity = activity.hasHealthyActivity
          /\ activity' = a
          /\ Reassess([Analysis EXCEPT !.activity = a])
     /\ UNCHANGED <<ver, bot, holderEnv, failedCalls, tokenInfo, contractAnalysis, verified,
                    holderAnalysis, ownership, taxes, lpEnv, liquidity, simEnv,
                    simulation, security, result>>
  \/ \* the bytecode grows past the complexity threshold
     /\ contractAnalysis.isContract
     /\ \E c \in RiskInputs[ver].contractAnalysis :
          /\ c.isContract
          /\ c.complexityScore > 7000 /\ contractAnalysis.complexityScore <= 7000
          /\ c.suspiciousPatterns = contractAnalysis.suspiciousPatterns
          /\ contractAnalysis' = c
          /\ Reassess([Analysis EXCEPT !.contractAnalysis = c])
     /\ UNCHANGED <<ver, bot, holderEnv, failedCalls, tokenInfo, verified, holderAnalysis, ownership,
                    taxes, lpEnv, liquidity, simEnv, simulation, activity, security,
                    result>>
  \/ \* the bytecode gains a mint function
     /\ contractAnalysis.isContract
     /\ \E c \in RiskInputs[ver].contractAnalysis :
          /\ c.isContract
          /\ c.suspiciousPatterns.canMint /\ ~contractAnalysis.suspiciousPatterns.canMint
          /\ c.complexityScore = contractAnalysis.complexityScore
          /\ contractAnalysis' = c
          /\ Reassess([Analysis EXCEPT !.contractAnalysis = c])
     /\ UNCHANGED <<ver, bot, holderEnv, failedCalls, tokenInfo, verified, holderAnalysis, ownership,
                    taxes, lpEnv, liquidity, simEnv, simulation, activity, security,
                    result>>

InitRisk ==
  /\ ver \in Versions
  /\ pc = "risk"
  /\ failedCalls = {}
  /\ tokenInfo = ResolveTokenInfo(ver, TokenEnv(FALSE, TRUE, 0, TRUE))
  /\ contractAnalysis \in RiskInputs[ver].contractAnalysis
  /\ verified = FALSE
  /\ holderAnalysis \in RiskInputs[ver].holderAnalysis
  /\ ownership \in RiskInputs[ver].ownership
  /\ taxes \in RiskInputs[ver].taxes
  /\ lpEnv = Pending
  /\ liquidity \in RiskInputs[ver].liquidity
  /\ simEnv = Pending
  /\ simulation \in RiskInputs[ver].simulation
  /\ activity \in RiskInputs[ver].activity
  /\ security \in RiskInputs[ver].security
  /\ riskAssessment = Pending
  /\ previous = Pending
  /\ holderEnv = Pending
  /\ bot = BotIdle
  /\ result = "none"

NextRisk == CalculateRiskAndReport \/ Worsen

SpecRisk == InitRisk /\ [][NextRisk]_vars

(***************************************************************************)
(* analyzeHolderDistribution alone, against the holder lists of the        *)
(* explorer and the supplies the token-metadata fetch can have resolved.   *)
(***************************************************************************)
\* the explorer's list: each address once, the greatest balance first, the
\* balances together no more than the smallest supply
HolderEnvsAll ==
  LET items == {Holder(a, b) :
                  a \in {"0xA", "0xB", VanityAddress, DeadAddress, ZeroAddress, TokenAddr},
                  b \in {0, 100, 250}}
      lists == UNION {{l \in [1..k -> items] :
                         /\ \A i, j \in 1..k : i < j => /\ l[i].address /= l[j].address
                                                        /\ l[i].value >= l[j].value} :
                      k \in 0..MaxHolders}
  IN {[holdersOk |-> TRUE, items |-> l] : l \in lists}
     \cup {[holdersOk |-> FALSE, items |-> <<>>]}

\* the token metadata: the supply unresolved (0) or resolved, with and without
\* the explorer's holder count
InitHolders ==
  /\ ver \in Versions
  /\ pc = "holders"
  /\ failedCalls = {}
  /\ tokenInfo \in {[ResolveTokenInfo(ver, TokenEnv(x, TRUE, 0, TRUE)) EXCEPT !.totalSupply = supply] :
                     x \in BOOLEAN, supply \in {0, 900, 1000}}
  /\ contractAnalysis = Pending
  /\ verified = FALSE
  /\ holderAnalysis = Pending
  /\ ownership = Pending
  /\ taxes = Pending
  /\ lpEnv = Pending
  /\ liquidity = Pending
  /\ simEnv = Pending
  /\ simulation = Pending
  /\ activity = Pending
  /\ security = Pending
  /\ riskAssessment = Pending
  /\ previous = Pending
  /\ holderEnv = Pending
  /\ bot = BotIdle
  /\ result = "none"

SpecHolders == InitHolders /\ [][AnalyzeHolderDistribution(HolderEnvsAll)]_vars

(***************************************************************************)
(* One run of analyzeToken on the tokens of the end-to-end scenarios: the  *)
(* LP 80% or 0% burned, with and without a lock, taxes 0/0 or 25/30, one   *)
(* holder with 15% or 50% of the supply, the dry runs passing or not, and  *)
(* every answer of the remaining fetchers.                                 *)
(***************************************************************************)
ScenarioEnvs ==
  [holders |-> {[holdersOk |-> TRUE, items |-> <<Holder("0xA", b)>>] : b \in {150, 500}},
   taxes |-> {TaxEnv(0, 0, 0, 0), TaxEnv(0, 0, 5, 10), TaxEnv(25, 30, 0, 0)},
   simulation |-> {SimEnv(TRUE, TRUE, Passed, Passed, Passed, Passed),
                   SimEnv(TRUE, TRUE, Reverted(Rv.TradingDisabled),
                          Reverted(Rv.TradingDisabled), Passed,
                          Reverted(Rv.TradingDisabled))}]

NextScenario ==
  \/ FetchTokenInfo({IF ver = "analyzer_js" THEN TokenEnv(FALSE, TRUE, 0, TRUE)
                     ELSE TokenEnv(TRUE, TRUE, 1000, TRUE)})
  \/ AnalyzeContractFeatures(CodesFew)
  \/ CheckContractVerified
  \/ AnalyzeHolderDistribution(ScenarioEnvs.holders)
  \/ AnalyzeOwnership({e \in OwnershipEnvs : e.canTransfer})
  \/ AnalyzeTaxes(ScenarioEnvs.taxes)
  \/ AnalyzeLiquidity(
       {MkLpEnv(p, b, "none", k) :
          p \in PairInputsOwn,
          b \in {<<100, 80>>, <<100, 0>>},
          k \in {NoLocker,
                 Locker(OneLock(20), IF ver = "part_006" THEN {1} ELSE {}, {}, FALSE)}},
       FALSE)
  \/ SimulateTrading(ScenarioEnvs.simulation)
  \/ AnalyzeTradingActivity({e \in ActivityEnvs : e.metricsOk})
  \/ AnalyzeSecurityFeatures(SecurityEnvs)
  \/ CalculateRiskAndReport

SpecScenario == Init /\ [][NextScenario]_vars

(***************************************************************************)
(* analyzeTaxes alone, against fee sums below and above 100, limits that   *)
(* are absent, a small part of the supply, the whole supply and more, and  *)
(* a supply that is unresolved, small or large.                            *)
(***************************************************************************)
TaxEnvsAll ==
  {[TaxEnv(buy, sell, maxTx, maxWallet) EXCEPT !.supplyOk = ok] :
     buy \in {0, 60, 120}, sell \in {0, 120}, maxTx \in {0, 1, 5, 1000, 3000},
     maxWallet \in {0, 1, 20}, ok \in BOOLEAN}
  \cup {TaxEnvFailed}

InitTaxes ==
  /\ ver \in Versions
  /\ pc = "taxes"
  /\ failedCalls = {}
  /\ tokenInfo \in {[ResolveTokenInfo(ver, TokenEnv(TRUE, TRUE, 0, TRUE))
                       EXCEPT !.totalSupply = supply] : supply \in {0, 1000, 20000}}
  /\ contractAnalysis = Pending
  /\ verified = FALSE
  /\ holderAnalysis = Pending
  /\ ownership = Pending
  /\ taxes = Pending
  /\ lpEnv = Pending
  /\ liquidity = Pending
  /\ simEnv = Pending
  /\ simulation = Pending
  /\ activity = Pending
  /\ security = Pending
  /\ riskAssessment = Pending
  /\ previous = Pending
  /\ holderEnv = Pending
  /\ bot = BotIdle
  /\ result = "none"

SpecTaxes == InitTaxes /\ [][AnalyzeTaxes(TaxEnvsAll)]_vars

(***************************************************************************)
(* Properties of the liquidity tier (part_006, part_007).                  *)
(***************************************************************************)
LiqDone == pc = "simulate" /\ ver \in {"part_006", "part_007"}

PairFound == IsPair(findLiquidityPair(ver, lpEnv))

QueriesOK == lpEnv.failAt = "none"

\* the lock-status check was asked and reported an active lock
LockReported == lpEnv.LOCKER_ADDRESS /\ checkLockerStatus(ver, lpEnv).locked

ReportedLockedPercent == checkLockerStatus(ver, lpEnv).lockedPercent

\* the locks of the locker that are not unlocked and whose unlock time is
\* strictly later than the evaluation time
TrulyActive(e) ==
  {i \in 1..Len(e.locks) : ~e.locks[i].unlocked /\ e.locks[i].unlockTime > e.now}

\* C1: the tier analyzeLiquidity returns is the one the decision table gives,
\* first matching row winning: no pair found or a failed LP query -> CRITICAL;
\* a reported active lock of >= 51% -> LOW, of 25% up to 51% -> MEDIUM, below
\* 25% -> HIGH; without a reported lock (or without a locker) burn >= 51% ->
\* LOW, 25% up to 51% -> MEDIUM, below 25% -> CRITICAL.
C1_TierFollowsTable ==
  LiqDone =>
    /\ ~PairFound => liquidity.lpRiskLevel = "CRITICAL"
    /\ PairFound /\ ~QueriesOK => liquidity.lpRiskLevel = "CRITICAL"
    /\ PairFound /\ QueriesOK /\ LockReported =>
         /\ ReportedLockedPercent >= 5100 => liquidity.lpRiskLevel = "LOW"
         /\ ReportedLockedPercent >= 2500 /\ ReportedLockedPercent < 5100 =>
              liquidity.lpRiskLevel = "MEDIUM"
         /\ ReportedLockedPercent < 2500 => liquidity.lpRiskLevel = "HIGH"
    /\ PairFound /\ QueriesOK /\ ~LockReported =>
         /\ BurnedPercent(lpEnv) >= 5100 => liquidity.lpRiskLevel = "LOW"
         /\ BurnedPercent(lpEnv) >= 2500 /\ BurnedPercent(lpEnv) < 5100 =>
              liquidity.lpRiskLevel = "MEDIUM"
         /\ BurnedPercent(lpEnv) < 2500 => liquidity.lpRiskLevel = "CRITICAL"

\* C1: a lock row wins over a burn row: LP 51% burned with a reported lock of
\* 20%, not unlocked and not expired, is rated HIGH
C1_LockRowBeatsBurnRow ==
  /\ LiqDone /\ PairFound /\ QueriesOK /\ LockReported
  /\ TrulyActive(lpEnv) /= {}
  /\ ReportedLockedPercent = 2000
  /\ BurnedPercent(lpEnv) = 5100
  /\ liquidity.lpRiskLevel = "HIGH"

C7_OnlyActiveLocksCount ==
  (pc = "simulate" /\ PairFound /\ QueriesOK) =>
    /\ liquidity.lpLocked => TrulyActive(lpEnv) /= {}
    /\ liquidity.lockedAmount <= SumAmounts(lpEnv.locks, TrulyActive(lpEnv))

(***************************************************************************)
(* Properties of one run of analyzeToken.                                  *)
(***************************************************************************)
Done == pc = "done"

\* C3: whenever the liquidity tier is CRITICAL, and in particular whenever no
\* liquidity pair was found, calculateComprehensiveRisk returns the level HIGH
\* RISK whatever the score and the other inputs are
C3_CriticalForcesHighRisk ==
  (/\ Done
   /\ ~riskAssessment.threw
   /\ (~PairFound \/ liquidity.lpRiskLevel = "CRITICAL"))
  => riskAssessment.level = "HIGH RISK"

\* C4: calculateComprehensiveRisk never throws, whatever the fetchers returned,
\* the result analyzeContractFeatures returns without bytecode included
C4_RiskNeverThrows == Done => ~riskAssessment.threw

DownstreamFetchers ==
  {"getCode", "verified", "holders", "ownership", "taxes", "liquidity", "simulation",
   "activity", "security"}

\* C5: when exactly one fetcher other than the token-metadata fetch failed,
\* analyzeToken still returns the rendered risk report, never the error report
C5_SingleFailureStillReports ==
  (Done /\ Cardinality(failedCalls) = 1 /\ failedCalls \subseteq DownstreamFetchers)
  => result = "report"

\* neither the explorer nor any of the four on-chain calls gave token metadata
MetadataUnresolved ==
  /\ {"name", "symbol", "decimals", "totalSupply"} \subseteq failedCalls
  /\ ver /= "analyzer_js" => "explorer" \in failedCalls

\* C6: when the token metadata cannot be resolved from any source, analyzeToken
\* returns the error report instead of a risk report
C6_UnresolvedMetadataAborts == (Done /\ MetadataUnresolved) => result = "error"

(***************************************************************************)
(* Properties of the honeypot simulator.                                   *)
(***************************************************************************)
\* the revert reasons that are normal for a probe without balance
BenignPatterns ==
  {W.insufficient_balance, W.insufficient_allowance, R.deadline_expired,
   W.insufficient_liquidity, R.low_liquidity}

Benign(reason) == \E w \in BenignPatterns : includes(toLowerCase(reason), w)

\* the dry run behind each probe: the later iterations probe buy and sell with
\* one approve()
ProbeOutcome(probe) ==
  IF probe = "transfer" THEN simEnv.transfer
  ELSE IF ver = "analyzer_js" THEN simEnv[probe]
  ELSE simEnv.approve

ProbeRan(probe) ==
  IF probe = "transfer" THEN ver = "analyzer_js" \/ ~simEnv.transfer0ok
  ELSE CanSwap(liquidity, simEnv)

\* C8: a probe (transfer, buy or sell) whose dry run reverted with a reason that
\* contains a benign pattern, in any letter case, is not reported as a critical
\* failure
C8_BenignRevertNeverCritical ==
  pc = "activity" =>
    \A probe \in {"transfer", "buy", "sell"} :
      (ProbeRan(probe) /\ ~ProbeOutcome(probe).ok /\ Benign(ProbeOutcome(probe).reason))
      => ~Critical_p(simulation.simulations[probe])

Assessed == pc = "assessed"

CriticalProbes == SelectSeq(Values(simulation.simulations), Critical_p)

WarningProbes == SelectSeq(Values(simulation.simulations), Warning_p)

VerdictHigh == simulation.honeypotRisk \in {Js.HighHoneypot, P.HighHoneypot}

VerdictPotential == simulation.honeypotRisk \in {Js.PotentialHoneypot, P.PotentialHoneypot}

VerdictModerate == simulation.honeypotRisk = P.ModerateConcerns

VerdictSafeOrUnclear == simulation.honeypotRisk \in {Js.NoHoneypot, P.NoHoneypot, P.Unclear}

NoHoneypotPenalty == HoneypotPenalty(ver, simulation.honeypotRisk) = 0

\* the one critical failure is on the sell or the transfer path
NamesSellOrTransfer(s) ==
  includes(toLowerCase(s), W.sell) \/ includes(toLowerCase(s), W.transfer)

Rescored == pc = "worsened" /\ ~previous.threw /\ ~riskAssessment.threw

\* C10: of two aggregator inputs that differ only in one condition, the one in
\* which the condition is more severe has a riskPercentage at least as high
C10_RiskPercentageMonotonic ==
  Rescored => riskAssessment.riskPercentage >= previous.riskPercentage

\* C10: a verdict worsened to high honeypot risk raised the score by the
\* penalty and the percentage with it
C10_WorseVerdictScoresHigher ==
  /\ Rescored
  /\ HoneypotClass(simulation.honeypotRisk) = 2
  /\ riskAssessment.score = previous.score + (IF ver = "analyzer_js" THEN 15 ELSE 10)
  /\ riskAssessment.riskPercentage > previous.riskPercentage

(***************************************************************************)
(* Properties of the overall tier and of the penalties.                    *)
(***************************************************************************)
Scored == Done /\ ~riskAssessment.threw

\* C11: the overall tier follows the percentage, >= 50 -> HIGH RISK, 30 up to
\* 50 -> MEDIUM RISK, below 30 -> LOW RISK, except that a CRITICAL liquidity
\* tier gives HIGH RISK; so a percentage below 30 without a CRITICAL liquidity
\* tier gives LOW RISK
C11_TierFromPercentage ==
  Scored =>
    riskAssessment.level =
      IF liquidity.lpRiskLevel = "CRITICAL" \/ riskAssessment.riskPercentage >= 50
      THEN "HIGH RISK"
      ELSE IF riskAssessment.riskPercentage >= 30 THEN "MEDIUM RISK"
      ELSE "LOW RISK"

\* the score of the same analysis with another answer of analyzeOwnership
ScoreWithOwner(owner) ==
  calculateComprehensiveRisk(ver,
    [Analysis EXCEPT !.ownership =
       analyzeOwnership(ver, [owner |-> owner, canTransfer |-> FALSE,
                              canRenounce |-> TRUE])]).score

\* C12: all other inputs fixed, the score of a token whose owner is classified
\* transferable is strictly greater than its score when self-owned, which is
\* strictly greater than its score with renounced ownership
C12_OwnershipPenaltyOrdered ==
  (Scored /\ ownership.ownershipRisk = "High (Transferable)") =>
    /\ riskAssessment.score > ScoreWithOwner(TokenAddr)
    /\ ScoreWithOwner(TokenAddr) > ScoreWithOwner(ZeroAddress)

(***************************************************************************)
(* Properties of the holder statistics.                                    *)
(***************************************************************************)
HoldersDone == pc = "ownership"

\* the raw balance of a holder record: amount (getFixedTopHolders) or balance
\* (holders.js)
RawBalance(h) == IF "amount" \in DOMAIN h THEN h.amount ELSE h.balance

\* C13: with a supply > 0 the percent of every holder is
\* ((balance * 10000) div supply) / 100, the integer quotient of the raw balance
\* and the raw supply, divided by 100
C13_PercentFromIntegerQuotient ==
  (HoldersDone /\ tokenInfo.totalSupply > 0) =>
    \A i \in 1..Len(holderAnalysis.displayHolders) :
      LET h == holderAnalysis.displayHolders[i]
      IN h.percent = Frac((RawBalance(h) * 10000) \div tokenInfo.totalSupply, 100)

\* every live holder has the same balance
EqualBalances ==
  /\ holderAnalysis.displayHolders /= <<>>
  /\ \A i, j \in 1..Len(holderAnalysis.displayHolders) :
       RawBalance(holderAnalysis.displayHolders[i])
         = RawBalance(holderAnalysis.displayHolders[j])

\* C14: calculateGiniCoefficient returns 0 for every non-empty list of holders
\* that all have the same balance, whatever their number and joint share
C14_GiniZeroForEqualBalances ==
  (HoldersDone /\ EqualBalances) =>
    calculateGiniCoefficient(ver, holderAnalysis.displayHolders) = Frac(0, 1)

(***************************************************************************)
(* The end-to-end scenarios.                                               *)
(***************************************************************************)
\* the pair was found, its calls were answered, and the burn address holds
\* percent hundredths of a percent of the LP supply
LpBurned(percent) ==
  PairFound /\ QueriesOK /\ BurnedPercent(lpEnv) = percent

AllDryRunsPass ==
  /\ simEnv.ROUTER_ADDRESS
  /\ simEnv.transfer0ok /\ simEnv.transfer.ok /\ simEnv.approve.ok
  /\ simEnv.buy.ok /\ simEnv.sell.ok

\* scenario A: LP 80% burned and not locked, no taxes, top-10 concentration 15%,
\* every dry run passing
ScenarioA ==
  /\ Done
  /\ LpBurned(8000) /\ ~LockReported
  /\ taxes.buyTax = 0 /\ taxes.sellTax = 0
  /\ holderAnalysis.top10Concentration = Frac(15, 1)
  /\ AllDryRunsPass

\* a factor that says CRITICAL, or the one pushed for the CRITICAL liquidity tier
CriticalFactor(f) ==
  f = F.LpUnlocked \/ includes(f, <<"C", "R", "I", "T", "I", "C", "A", "L">>)

\* C15: in scenario A, whatever ownership, limits, security features, activity
\* and bytecode heuristics are, the result has the liquidity tier LOW, the
\* overall tier LOW RISK and no CRITICAL entry among its factors
C15_ScenarioALowRisk ==
  ScenarioA =>
    /\ ~riskAssessment.threw
    /\ liquidity.lpRiskLevel = "LOW"
    /\ riskAssessment.level = "LOW RISK"
    /\ \A i \in 1..Len(riskAssessment.factors) : ~CriticalFactor(riskAssessment.factors[i])

\* scenario C: buy tax 25, sell tax 30, LP 0% burned, no locker configured
ScenarioC ==
  /\ Done
  /\ taxes.buyTax = 25 /\ taxes.sellTax = 30
  /\ LpBurned(0) /\ ~lpEnv.LOCKER_ADDRESS

\* what the taxes add to the score: the score less the score of the same
\* analysis without taxes
TaxPenaltyApplied ==
  riskAssessment.score
    - calculateComprehensiveRisk(ver,
        [Analysis EXCEPT !.taxes.buyTax = 0, !.taxes.sellTax = 0]).score

TaxFactor(f) == includes(f, <<"T", "A", "X">>)

LiquidityFactor(f) ==
  includes(f, <<"L", "P">>) \/ includes(f, <<"L", "I", "Q", "U", "I", "D", "I", "T", "Y">>)

\* C16: in scenario C the tax penalty is the largest one (16, analyzer.js 20),
\* the liquidity tier is CRITICAL, the overall tier is HIGH RISK, and the
\* factors hold an entry about the taxes and an entry about the liquidity
C16_ScenarioCHighRisk ==
  ScenarioC =>
    /\ ~riskAssessment.threw
    /\ TaxPenaltyApplied = (IF ver = "analyzer_js" THEN 20 ELSE 16)
    /\ liquidity.lpRiskLevel = "CRITICAL"
    /\ riskAssessment.level = "HIGH RISK"
    /\ \E i \in 1..Len(riskAssessment.factors) : TaxFactor(riskAssessment.factors[i])
    /\ \E i \in 1..Len(riskAssessment.factors) : LiquidityFactor(riskAssessment.factors[i])

\* formatAnalysisReport, the line on liquidity: "<ok> Liquidity detected" or
\* "<x> No liquidity found" (analyzer.js) / "<x> NO LIQUIDITY - CRITICAL"
LiquidityLine(v, liq) ==
  IF liq.hasLiquidity THEN "Liquidity detected"
  ELSE IF v = "analyzer_js" THEN "No liquidity found"
  ELSE "NO LIQUIDITY - CRITICAL"

(***************************************************************************)
(* A failed holder fetch.                                                  *)
(***************************************************************************)
\* formatAnalysisReport: `Distribution: ${healthyDistribution ? "Healthy" : "Concentrated"}`
Distribution(ha) == IF ha.healthyDistribution THEN "Healthy" ELSE "Concentrated"

\* scenario D: the holder list could not be fetched
ScenarioD == Done /\ "holders" \in failedCalls

\* C17: when the holder list cannot be fetched the holder analysis has 0 live
\* holders, its distribution is classified unknown (neither healthy nor
\* concentrated), and analyzeToken still returns a report
C17_FailedHolderFetchUnknown ==
  ScenarioD =>
    /\ holderAnalysis.totalLiveHolders = 0
    /\ Distribution(holderAnalysis) = "unknown"
    /\ result = "report"

(***************************************************************************)
(* The pair search.                                                        *)
(***************************************************************************)
PairSearched == pc = "simulate"

\* the configured base tokens for which the factory answers a non-zero pair
BasesWithPair == {i \in 1..Len(lpEnv.basePairs) : IsPair(lpEnv.basePairs[i])}

FirstBaseWithPair == CHOOSE i \in BasesWithPair : \A j \in BasesWithPair : i <= j

\* C18: the pair found is the token's own pair() answer when that is non-zero;
\* otherwise, with a factory configured, the answer for the first configured
\* base token that has a non-zero one, a failed lookup for an earlier base
\* token notwithstanding; otherwise the zero address
C18_PairSearchOrder ==
  PairSearched =>
    liquidity.lpPair =
      IF IsPair(lpEnv.ownPair) THEN lpEnv.ownPair
      ELSE IF lpEnv.FACTORY_ADDRESS /\ BasesWithPair /= {}
      THEN lpEnv.basePairs[FirstBaseWithPair]
      ELSE ZeroAddress

(***************************************************************************)
(* Idempotence.                                                            *)
(***************************************************************************)
\* the liquidity result of a second run that gets the same answers and draws d
LiquidityOfRerun(d) == analyzeLiquidity(ver, [lpEnv EXCEPT !.lpAgeDraw = d])

Unrecognised(reason) ==
  ~Benign(reason) /\ ~includes(toLowerCase(reason), W.transfer_amount_exceeds)

\* the probes whose dry run reverted with an unrecognised reason
UnrecognisedReverts ==
  {probe \in {"transfer", "buy", "sell"} :
     /\ ProbeRan(probe)
     /\ ~ProbeOutcome(probe).ok
     /\ Unrecognised(ProbeOutcome(probe).reason)}

\* C20: a probe whose dry run reverted with an unrecognised reason is reported
\* as a critical failure, and two such probes give the high honeypot verdict
C20_UnrecognisedRevertCritical ==
  pc = "activity" =>
    /\ \A probe \in UnrecognisedReverts : Critical_p(simulation.simulations[probe])
    /\ Cardinality(UnrecognisedReverts) >= 2 => VerdictHigh

(***************************************************************************)
(* Ranges of the tax analysis.                                             *)
(***************************************************************************)
TaxesDone == pc = "liquidity"

\* C21: analyzeTaxes returns buyTax and sellTax within [0, 100] and
\* maxTxPercent and maxWalletPercent within (0, 100] (hundredths of a percent
\* here): a reported limit is never 0
C21_TaxesInRange ==
  TaxesDone =>
    /\ taxes.buyTax \in 0..100
    /\ taxes.sellTax \in 0..100
    /\ taxes.maxTxPercent \in 1..10000
    /\ taxes.maxWalletPercent \in 1..10000

(***************************************************************************)
(* The live-holder filter.                                                 *)
(***************************************************************************)
\* the address the explorer gave for a holder record: rawAddress (holders.js)
\* or address (getFixedTopHolders)
RawAddress(h) == IF "rawAddress" \in DOMAIN h THEN h.rawAddress ELSE h.address

\* the live holders: with at most 8 of them, displayHolders is the whole list
\* that the concentration, the count and the Gini coefficient are computed from
LiveAddresses ==
  {RawAddress(holderAnalysis.displayHolders[i]) :
     i \in 1..Len(holderAnalysis.displayHolders)}

\* C22: the zero address and the burn address are never among the live
\* holders, the list that the top-10 concentration, the live holder count and
\* the Gini coefficient are computed from
C22_BurnAndZeroNeverLive ==
  HoldersDone => LiveAddresses \cap {ZeroAddress, DeadAddress} = {}

(***************************************************************************)
(* The healthy-distribution classification.                                *)
(***************************************************************************)
\* the number of live holders (at most 8 of them here, so that displayHolders
\* is the whole list)
LiveHolderCount == Len(holderAnalysis.displayHolders)

\* the three conditions on the live holders: top-10 concentration < 40%, more
\* live holders than the iteration's minimum (10 in part_006, 50 elsewhere),
\* Gini coefficient < 0.7
ThreeConditions ==
  /\ FracLess(holderAnalysis.top10Concentration, Frac(40, 1))
  /\ LiveHolderCount > (IF ver = "part_006" THEN 10 ELSE 50)
  /\ FracLess(calculateGiniCoefficient(ver, holderAnalysis.displayHolders), Frac(7, 10))

\* C23: the distribution is reported healthy if and only if the top-10
\* concentration is < 40%, the live holder count exceeds the minimum and the
\* Gini coefficient is < 0.7
C23_HealthyIffThreeConditions ==
  HoldersDone => (holderAnalysis.healthyDistribution <=> ThreeConditions)

(***************************************************************************)
(* The factor list.                                                        *)
(***************************************************************************)
\* the penalty part_006 / part_007 add to the score where they push the factor
FactorPenalty(f) ==
  CASE f = F.NoLiquidity -> 30
    [] f = F.LpUnlocked -> 25
    [] f = F.LpInsufficient -> 20
    [] f = F.LpPartial -> 12
    [] f = F.LpStrong -> 0
    [] f = F.WhaleExtreme -> 15
    [] f = F.WhaleHigh -> 8
    [] f = F.HoneypotHigh -> 10
    [] f = F.HoneypotPotential -> 5
    [] f = F.Dangerous -> 8
    [] f = F.LowActivity -> 3
    [] f = F.DevActivity -> 2

\* the penalties of the factors of the assessment, in the list's order
FactorPenalties ==
  [i \in 1..Len(riskAssessment.factors) |-> FactorPenalty(riskAssessment.factors[i])]

\* every factor stands for a penalty that was added, and the penalties of the
\* factors add up to the score: no penalty was added without a factor
OneFactorPerPenalty ==
  /\ \A i \in DOMAIN FactorPenalties : FactorPenalties[i] > 0
  /\ SumOver(FactorPenalties, DOMAIN FactorPenalties) = riskAssessment.score

MostSevereFirst ==
  \A i, j \in DOMAIN FactorPenalties : i < j => FactorPenalties[i] >= FactorPenalties[j]

\* C24: the factor list holds exactly one entry for each penalty that was
\* added to the score, and an earlier entry stands for a penalty at least as
\* large as that of a later one
C24_FactorsPerPenaltyMostSevereFirst ==
  (Done /\ ~riskAssessment.threw) => (OneFactorPerPenalty /\ MostSevereFirst)

(***************************************************************************)
(* The insight list.                                                       *)
(***************************************************************************)
\* the lines by group: positive signals, warnings, the trading-style
\* recommendation; the lines on buyers and volume belong to none of the three
PositiveLines ==
  {I.Renounced, I.LpLocked, I.LpBurned, I.Healthy, I.LowTaxes, I.NoHoneypot,
   I.SecurityHigh}

WarningLines ==
  {I.CriticalLp, I.OnlyTrade, I.HighLp, I.ExtremeCaution, I.HighTaxes, I.Whales,
   I.LowLimits}

RecommendationLines == {I.Swing, I.Medium, I.High}

\* the positions of the insight list that hold a line of the group
Positions(group) ==
  {i \in DOMAIN riskAssessment.insights : riskAssessment.insights[i].text \in group}

PositiveBeforeWarnings ==
  \A i \in Positions(PositiveLines), j \in Positions(WarningLines) : i < j

RecommendationAfterBoth ==
  \A i \in Positions(PositiveLines \cup WarningLines),
     j \in Positions(RecommendationLines) : i < j

\* C25: in the insight list every positive-signal line precedes every warning
\* line, and the trading-style recommendation comes after all of both
C25_InsightGroupsInOrder ==
  (Done /\ ~riskAssessment.threw) => (PositiveBeforeWarnings /\ RecommendationAfterBoth)

(***************************************************************************)
(* The bound of the score.                                                 *)
(***************************************************************************)
\* C26: the accumulated score never exceeds maxScore, and riskPercentage is
\* an integer from 0 to 100
C26_ScoreWithinMaxScore ==
  (Done /\ ~riskAssessment.threw) =>
    /\ riskAssessment.score \in 0..maxScore(ver)
    /\ riskAssessment.riskPercentage \in 0..100

\* an assessment in which every scored condition but the owner's is at its
\* worst or next to it
C26_NearlyEveryPenaltyAdded ==
  /\ Done /\ ~riskAssessment.threw
  /\ riskAssessment.score >= 92
  /\ riskAssessment.riskPercentage >= 80

(***************************************************************************)
(* hasLiquidity.                                                           *)
(***************************************************************************)
\* C27: hasLiquidity is true if and only if a non-zero pair address was
\* found; when none was found, the aggregator adds the no-liquidity penalty
\* and the report has the line that no liquidity was found
C27_HasLiquidityIffPairFound ==
  (Done /\ ~riskAssessment.threw) =>
    /\ liquidity.hasLiquidity <=> IsPair(liquidity.lpPair)
    /\ ~IsPair(liquidity.lpPair) =>
         /\ LiquidityPenalty(ver, liquidity) = (IF ver = "analyzer_js" THEN 20 ELSE 30)
         /\ LiquidityLine(ver, liquidity) /= "Liquidity detected"

(***************************************************************************)
(* What the live-holder filter keeps.                                      *)
(***************************************************************************)
\* the fetched holders with a positive balance whose address is neither the
\* zero address, nor the burn address, nor the token's
OrdinaryHolders ==
  {holderEnv.items[i].address : i \in {j \in 1..Len(holderEnv.items) :
     /\ holderEnv.items[j].value > 0
     /\ holderEnv.items[j].address \notin {ZeroAddress, DeadAddress, TokenAddr}}}

\* the list reached analyzeHolderDistribution: the request was answered, and in
\* part_007 the percent was computable
ListFetched ==
  HoldersDone /\ holderEnv.holdersOk /\ ~(ver = "part_007" /\ tokenInfo.totalSupply > 0)

\* C28: the live-holder filter removes only the zero address, the burn
\* address and the token itself: a fetched holder with a positive balance and
\* any other address is among the live holders
C28_FilterRemovesOnlyThree ==
  ListFetched => OrdinaryHolders \subseteq LiveAddresses

(***************************************************************************)
(* The honeypot verdict and the trader insights.                           *)
(***************************************************************************)
\* assessHoneypotRisk returned its "no honeypot indicators" verdict
NoIndicatorsVerdict == simulation.honeypotRisk \in {Js.NoHoneypot, P.NoHoneypot}

\* the insight list holds the line "No honeypot indicators detected"
NoHoneypotLineShown ==
  \E i \in DOMAIN riskAssessment.insights : riskAssessment.insights[i].text = I.NoHoneypot

\* C29: whenever the verdict of assessHoneypotRisk is "no honeypot
\* indicators", the insight list of generateTraderInsights holds the line
\* "No honeypot indicators detected"
C29_NoHoneypotLineFollowsVerdict ==
  (Done /\ ~riskAssessment.threw /\ NoIndicatorsVerdict) => NoHoneypotLineShown

(***************************************************************************)
(* The chat front end: bot.on("message") behind globalLimiter and the      *)
(* limiter of the chat.  A message is handled up to its first await in one *)
(* step; every later step is the continuation of one await.                *)
(***************************************************************************)
\* globalLimiter = new Bottleneck({ maxConcurrent: 3, minTime: 2000 })
maxConcurrent == 3

\* how bot.sendMessage settles: resolved, or rejected with Telegram's error
SendOutcomes == {"ok", "ETELEGRAM: 429 Too Many Requests", "ETELEGRAM: 400 Bad Request"}

\* the bot after request r called bot.sendMessage(chatId, text) and the call
\* settled with out
sendMessage(b, r, text, out) ==
  [b EXCEPT !.sent[r] = Append(@, [text |-> text, delivered |-> out = "ok"])]

\* the job of request r settled: globalLimiter has one job less running; a
\* rejection reaches the catch block of the handler with the error
JobSettled(b, r, out) ==
  [b EXCEPT !.running = @ - 1,
            !.err[r] = IF out = "ok" THEN @ ELSE out,
            !.stage[r] = IF out = "ok" THEN "done" ELSE "caught"]

analyzerVars ==
  <<ver, pc, failedCalls, tokenInfo, contractAnalysis, verified, holderEnv, holderAnalysis,
    ownership, taxes, lpEnv, liquidity, simEnv, simulation, activity, security, riskAssessment,
    previous, result>>

\* a text message that is no command arrives from chat c: an invalid address
\* is answered at once; a valid one creates the limiter of the chat when it has
\* none and is scheduled on globalLimiter
OnMessage(r, c, valid) ==
  /\ bot.stage[r] = "unsent"
  /\ \A q \in Requests : q < r => bot.stage[q] /= "unsent"
  /\ bot' = IF ~valid
            THEN [bot EXCEPT !.chatId[r] = c, !.stage[r] = "invalid"]
            ELSE [bot EXCEPT !.chatId[r] = c, !.isAddress[r] = TRUE,
                             !.stage[r] = "globalQueued",
                             !.userLimiters[c] =
                                IF @.created THEN @
                                ELSE [created |-> TRUE, reservoir |-> 1, queue |-> <<>>],
                             !.globalQueue = Append(@, r)]
  /\ UNCHANGED analyzerVars

\* await bot.sendMessage(chatId, "Invalid contract address ..."); return
ReplyInvalid(r) ==
  /\ bot.stage[r] = "invalid"
  /\ \E out \in SendOutcomes :
       bot' = [sendMessage(bot, r, "invalid", out) EXCEPT !.stage[r] = "done"]
  /\ UNCHANGED analyzerVars

\* globalLimiter starts its oldest job: fewer than maxConcurrent are running
\* and minTime has passed since the last start.  The job schedules the
\* analysis on the limiter of the chat.
GlobalLimiterRun ==
  /\ bot.globalQueue /= <<>>
  /\ bot.running < maxConcurrent
  /\ ~bot.minTimeWait
  /\ LET r == Head(bot.globalQueue)
     IN bot' = [bot EXCEPT !.globalQueue = Tail(@),
                           !.running = @ + 1,
                           !.minTimeWait = TRUE,
                           !.userLimiters[bot.chatId[r]].queue = Append(@, r),
                           !.stage[r] = "userQueued"]
  /\ UNCHANGED analyzerVars

\* minTime (2000 ms) after the last start of a job of globalLimiter
MinTimeElapsed ==
  /\ bot.minTimeWait
  /\ bot' = [bot EXCEPT !.minTimeWait = FALSE]
  /\ UNCHANGED analyzerVars

\* the limiter of chat c starts its oldest job: it costs the reservoir's one unit
UserLimiterRun(c) ==
  /\ bot.userLimiters[c].queue /= <<>>
  /\ bot.userLimiters[c].reservoir > 0
  /\ LET r == Head(bot.userLimiters[c].queue)
     IN bot' = [bot EXCEPT !.userLimiters[c].queue = Tail(@),
                           !.userLimiters[c].reservoir = @ - 1,
                           !.stage[r] = "job"]
  /\ UNCHANGED analyzerVars

\* reservoirRefreshInterval (10 s) passed: the reservoir is reservoirRefreshAmount again
ReservoirRefresh(c) ==
  /\ bot.userLimiters[c].created
  /\ bot.userLimiters[c].reservoir = 0
  /\ bot' = [bot EXCEPT !.userLimiters[c].reservoir = 1]
  /\ UNCHANGED analyzerVars

\* await bot.sendMessage(chatId, "Analyzing token...")
SendAnalyzing(r) ==
  /\ bot.stage[r] = "job"
  /\ \E out \in SendOutcomes :
       bot' = IF out = "ok"
              THEN [sendMessage(bot, r, "analyzing", out) EXCEPT !.stage[r] = "analyzing"]
              ELSE JobSettled(sendMessage(bot, r, "analyzing", out), r, out)
  /\ UNCHANGED analyzerVars

\* const result = await analyzeToken(text): analyzeToken catches what its
\* fetchers throw and resolves with the report or with its error text
CallAnalyzeToken(r) ==
  /\ bot.stage[r] = "analyzing"
  /\ bot' = [bot EXCEPT !.calls[r] = @ + 1, !.stage[r] = "analyzed"]
  /\ UNCHANGED analyzerVars

\* await bot.sendMessage(chatId, result, { parse_mode: "HTML" })
SendReport(r) ==
  /\ bot.stage[r] = "analyzed"
  /\ \E out \in SendOutcomes :
       bot' = JobSettled(sendMessage(bot, r, "report", out), r, out)
  /\ UNCHANGED analyzerVars

\* catch (err): the rate-limit text when err.message includes "Too Many
\* Requests", the error text otherwise; the send is awaited outside any try
CatchReply(r) ==
  /\ bot.stage[r] = "caught"
  /\ \E out \in SendOutcomes :
       bot' = [sendMessage(bot, r,
                           IF bot.err[r] = "ETELEGRAM: 429 Too Many Requests"
                           THEN "rateLimit" ELSE "error", out)
                 EXCEPT !.stage[r] = "done"]
  /\ UNCHANGED analyzerVars

\* index.js imports analyzeToken from ./analyzer.js
InitBot == Init /\ ver = "analyzer_js"

NextBot ==
  \/ \E r \in Requests, c \in Chats, valid \in BOOLEAN : OnMessage(r, c, valid)
  \/ \E r \in Requests : ReplyInvalid(r)
  \/ GlobalLimiterRun
  \/ MinTimeElapsed
  \/ \E c \in Chats : UserLimiterRun(c)
  \/ \E c \in Chats : ReservoirRefresh(c)
  \/ \E r \in Requests : SendAnalyzing(r)
  \/ \E r \in Requests : CallAnalyzeToken(r)
  \/ \E r \in Requests : SendReport(r)
  \/ \E r \in Requests : CatchReply(r)

\* the event loop runs every continuation that is ready and every timer
\* fires; nothing obliges a chat to write
SpecBot ==
  /\ InitBot
  /\ [][NextBot]_vars
  /\ \A r \in Requests :
       /\ WF_vars(ReplyInvalid(r))
       /\ WF_vars(SendAnalyzing(r))
       /\ WF_vars(CallAnalyzeToken(r))
       /\ WF_vars(SendReport(r))
       /\ WF_vars(CatchReply(r))
  /\ \A c \in Chats : WF_vars(UserLimiterRun(c)) /\ WF_vars(ReservoirRefresh(c))
  /\ WF_vars(GlobalLimiterRun)
  /\ WF_vars(MinTimeElapsed)

\* the replies request r received: the sends Telegram accepted
Received(r, texts) ==
  {i \in DOMAIN bot.sent[r] : bot.sent[r][i].delivered /\ bot.sent[r][i].text \in texts}

\* the calls of bot.sendMessage request r made with one of the texts
Sent(r, texts) == {i \in DOMAIN bot.sent[r] : bot.sent[r][i].text \in texts}

TerminalReplies == {"report", "error", "rateLimit"}

\* the handler of request r returned
Handled(r) == bot.stage[r] = "done"

\* every message that arrived is handled to the end
EveryHandlerReturns == \A r \in Requests : (bot.stage[r] /= "unsent") ~> Handled(r)

\* a message is never answered with more than one terminal reply, and an
\* invalid address is answered with the invalid-address reply only
NeverTwoReplies ==
  \A r \in Requests :
    /\ Cardinality(Received(r, TerminalReplies)) <= 1
    /\ ~bot.isAddress[r] => bot.calls[r] = 0 /\ Sent(r, TerminalReplies \cup {"analyzing"}) = {}

\* C30: a text that is no valid address never reaches analyzeToken and is
\* answered with exactly one invalid-address reply; a valid address receives
\* exactly one terminal reply, the report or an error message, never both and
\* never none, however the requests of the chats interleave
C30_ExactlyOneTerminalReply ==
  \A r \in Requests :
    /\ ~bot.isAddress[r] => bot.calls[r] = 0
    /\ Handled(r) =>
         IF bot.isAddress[r]
         THEN Cardinality(Received(r, TerminalReplies)) = 1
         ELSE Cardinality(Sent(r, {"invalid"})) = 1

====
